---- MODULE Spec2Model ----
(***************************************************************************)
(* Staged planning pipeline (ai_service.py) and plan executor              *)
(* (command_service.py) of PlanZada4.                                      *)
(*                                                                         *)
(* Python values are records [t, n, s, d]: t is the Python type, n the     *)
(* numeric payload, s the string payload, d the mapping of a dict.         *)
(* Confidence and quality are floats in the code; here they are integers   *)
(* in hundredths (0.3 is 30, 1.0 is 100), which keeps every comparison the *)
(* code makes.                                                             *)
(***************************************************************************)
EXTENDS Integers, Sequences, FiniteSets, TLC

VARIABLES
    pc,             \* position inside process_user_request / execute_plan
    user_text,      \* argument user_text of process_user_request
    gw,             \* the running _call_model invocation
    intent,         \* result of analyze_intent
    structured,     \* result of extract_structure
    plan,           \* result of make_plan (after lines 579-581), kept until
                    \* execute_plan takes the returned plan over
    review,         \* result of review_plan
    result,         \* plan returned by process_user_request
    escaped,        \* the function an exception escaped from, "" if none
    unreachable,    \* every model call of this request has raised so far
    model_method,   \* the method in the model's Plan-stage answer (history)
    stage_raised,   \* stage functions that raised during this request
    reply,          \* CommandResult returned by execute_plan
    handler_calls,  \* capability handlers invoked by execute_plan, in order
    handler_raised, \* the handler invoked by execute_plan raised
    actions,        \* action_log._ACTIONS of the requesting user
    debug_flag,     \* debug_service._user_debug_flags of the requesting user
    requests,       \* requests handled so far
    invocations,    \* callers of _call_model during this request, in order
    trunc,          \* a call of truncate_text: arguments, position, result
    retry,          \* a call of _with_retries or _with_retries_caldav
    _HISTORY,       \* dialog_history._HISTORY, by user id
    _ACTIONS,       \* action_log._ACTIONS, by user id
    _user_debug_flags,  \* debug_service._user_debug_flags, by user id
    store_op,       \* the last operation on the stores and the user it was for
    mk,             \* a call of make_plan: arguments, position, result
    gs              \* the spreadsheet and the google_service calls that run
                    \* on worker threads

vars == <<pc, user_text, gw, intent, structured, plan, review, result, escaped,
          unreachable, model_method, stage_raised, reply, handler_calls, actions,
          debug_flag, requests, invocations, handler_raised, trunc, retry,
          _HISTORY, _ACTIONS, _user_debug_flags, store_op, mk, gs>>

\* the state of process_user_request and execute_plan
pipeline == <<pc, user_text, gw, intent, structured, plan, review, result,
              escaped, unreachable, model_method, stage_raised, reply,
              handler_calls, actions, debug_flag, requests, invocations,
              handler_raised>>

\* the state of the functions that are followed on their own
stores == <<_HISTORY, _ACTIONS, _user_debug_flags, store_op>>
more == <<mk, gs>>
aux == <<trunc, retry, stores, more>>

(***************************************************************************)
(* Bounds of the model.                                                    *)
(***************************************************************************)
MaxRequests == 1
MaxParts == 1
MaxTextLen == 12
MaxChars == 9
MaxOps == 3
MaxCalls == 2

(***************************************************************************)
(* Python values.                                                          *)
(***************************************************************************)
V(t, n, s, d) == [t |-> t, n |-> n, s |-> s, d |-> d]
None == V("null", 0, "", <<>>)
Num(x) == V("num", x, "", <<>>)
BigInt == V("bigint", 0, "", <<>>)
Str(x) == V("str", 0, x, <<>>)
List(k) == V("list", k, "", <<>>)
Dict(d) == V("dict", 0, "", d)

Min(a, b) == IF a <= b THEN a ELSE b
Max(a, b) == IF a >= b THEN a ELSE b

\* bool(v)
Truthy(v) ==
    CASE v.t = "null" -> FALSE
      [] v.t = "num" -> v.n # 0
      [] v.t = "bigint" -> TRUE
      [] v.t = "str" -> v.s # ""
      [] v.t = "list" -> v.n > 0
      [] v.t = "dict" -> DOMAIN v.d # {}

\* a or b
Or(a, b) == IF Truthy(a) THEN a ELSE b

\* v.get(k): raises AttributeError unless v is a dict
HasGet(v) == v.t = "dict"
Get(v, k) == IF k \in DOMAIN v.d THEN v.d[k] ELSE None
GetOr(v, k, dflt) == IF k \in DOMAIN v.d THEN v.d[k] ELSE dflt

\* d[k] = x
Put(d, k, x) == [y \in (DOMAIN d) \cup {k} |-> IF y = k THEN x ELSE d[y]]

(***************************************************************************)
(* Texts.  A text is a Python str, kept as what json.loads makes of it:    *)
(* js says that the text is a JSON document and v is the parsed value;     *)
(* for a text that is not JSON, v is the string itself.  NoText is the     *)
(* Python None that _call_model returns for "no answer".                   *)
(***************************************************************************)
Json(v) == [js |-> TRUE, v |-> v]
Plain(s) == [js |-> FALSE, v |-> Str(s)]
NoText == [js |-> FALSE, v |-> None]
EmptyText == Plain("")
TextTruthy(x) == x.js \/ Truthy(x.v)

\* str of a text, as a Python value
AsStr(x) == IF x.js THEN Str("{json}") ELSE x.v

\* "\n".join(texts)
Join(texts) ==
    IF Len(texts) = 1 THEN texts[1] ELSE Plain("joined parts")

_safe_json_loads(x) == IF x.js THEN x.v ELSE None

(***************************************************************************)
(* Prompt Budgeter: truncate_text.  Here a text is the sequence of its     *)
(* characters.                                                             *)
(***************************************************************************)
separator == <<"\n", ".", ".", ".", "\n">>
TailMax == 1000

\* text[:k] for k >= 0
SliceTo(text, k) == SubSeq(text, 1, Min(k, Len(text)))

\* text[i:] for any integer i; a negative i counts from the end
SliceFrom(text, i) ==
    LET start == IF i < 0 THEN Max(Len(text) + i, 0) ELSE Min(i, Len(text))
    IN  SubSeq(text, start + 1, Len(text))

\* truncate_text, lines 281-290
truncate_text(text, max_chars) ==
    LET tail_len == Min(TailMax, max_chars \div 3)
        head_len == max_chars - tail_len - Len(separator)
        head_len2 == IF head_len <= 0 THEN max_chars \div 2 ELSE head_len
        tail_len2 == IF head_len <= 0
                     THEN max_chars - head_len2 - Len(separator)
                     ELSE tail_len
    IN  IF Len(text) <= max_chars THEN text
        ELSE SliceTo(text, head_len2) \o separator \o SliceFrom(text, -tail_len2)

(***************************************************************************)
(* Model Gateway: _call_model and its helpers.                             *)
(***************************************************************************)
IntCodeName(n) ==
    CASE n = 0 -> "OTHER"
      [] n = 1 -> "STOP"
      [] n = 2 -> "MAX_TOKENS"
      [] n = 3 -> "SAFETY"
      [] n = 4 -> "RECITATION"
      [] OTHER -> "UNKNOWN_CODE"

Aliases(name) ==
    CASE name = "BLOCKED" -> "BLOCKLIST"
      [] name = "BLOCKLIST_BLOCK" -> "BLOCKLIST"
      [] name = "PROHIBITED" -> "PROHIBITED_CONTENT"
      [] name = "CONTENT_FILTERED" -> "BLOCKLIST"
      [] OTHER -> name

_normalize_finish_reason(value) ==
    CASE value.t = "null" -> "NONE"
      [] value.t = "num" -> Aliases(IntCodeName(value.n))
      [] value.t = "str" -> Aliases(value.s)
      [] OTHER -> "OTHER"

blocked_reasons ==
    {"SAFETY", "BLOCKLIST", "PROHIBITED_CONTENT", "SPII", "OTHER", "RECITATION"}

\* The responses of the model service: generate_content raises, or returns a
\* response with an optional .text, candidates with a finish reason, and
\* content parts.
Raises == [raises |-> TRUE, text |-> NoText, ncand |-> 0, fr |-> None, parts |-> <<>>]
Resp(text, ncand, fr, parts) ==
    [raises |-> FALSE, text |-> text, ncand |-> ncand, fr |-> fr, parts |-> parts]

SeqsUpTo(S, k) == UNION {[1..m -> S] : m \in 0..k}

TruthyParts(parts) == SelectSeq(parts, TextTruthy)

\* a part whose .text is a truthy value that is not a str: "\n".join raises
BadPart == [js |-> FALSE, v |-> Num(7)]
IsStrText(x) == x.js \/ x.v.t \in {"str", "null"}
JoinRaises(texts) == \E k \in DOMAIN texts : ~IsStrText(texts[k])

\* _sync_call: the text and the finish reason recovered from one response;
\* raised says that _sync_call itself raised (line 171)
_sync_call(r) ==
    LET fr == IF r.ncand > 0 THEN _normalize_finish_reason(r.fr) ELSE "NONE"
        texts == TruthyParts(r.parts)
        out(res) == [result |-> res, finish_reason |-> fr, raised |-> FALSE]
    IN  IF r.raises
        THEN [result |-> NoText, finish_reason |-> "NONE", raised |-> FALSE]
        ELSE IF TextTruthy(r.text) THEN out(r.text)
        ELSE IF r.ncand = 0 THEN out(NoText)
        ELSE IF fr \in blocked_reasons THEN out(NoText)
        ELSE IF texts = <<>> THEN out(NoText)
        ELSE IF JoinRaises(texts)
        THEN [result |-> NoText, finish_reason |-> fr, raised |-> TRUE]
        ELSE out(Join(texts))

MaxTokensMessage == Plain("max tokens message")

ExpandedFloor == 2048

\* variant: the budget is doubled without a floor
expanded_tokens_nofloor(max_output_tokens) == max_output_tokens * 2
NoContextTokens == 200
expanded_tokens(max_output_tokens) == Max(max_output_tokens * 2, ExpandedFloor)

\* lines 231-241: what _call_model returns when no call gave text
NoTextReturn(finish_reason) ==
    IF finish_reason = "MAX_TOKENS" THEN MaxTokensMessage ELSE NoText

\* The texts a response of the model service carries: its .text, the text of
\* its parts, and the parts joined.
ResponseTexts(r) ==
    LET strs == SelectSeq(r.parts, LAMBDA x : TextTruthy(x) /\ IsStrText(x))
    IN  {x \in {r.text} : TextTruthy(x)}
        \cup {strs[k] : k \in DOMAIN strs}
        \cup (IF strs = <<>> THEN {} ELSE {Join(strs)})

\* A prompt is the sequence of its parts.  The prompts of the four stages
\* (lines 347-357, 380-392, 446-461, 496-505) and of free_chat (lines 531-536),
\* each shorter than the ceiling of line 71.
StagePrompt(stage) ==
    CASE stage = "intent" ->
            <<"instructions", "context_marker", "context", "request_marker",
              "request">>
      [] stage = "structure" ->
            <<"instructions", "context_marker", "context", "intent_json",
              "request_marker", "request">>
      [] stage = "plan" ->
            <<"instructions", "context_marker", "context", "intent_json",
              "structured_json", "request_marker", "request", "json_only">>
      [] stage = "review" ->
            <<"instructions", "context_marker", "context", "plan_json",
              "request_marker", "request", "json_only">>
      [] OTHER ->
            <<"instructions", "context_label", "context", "request_label",
              "request">>

\* line 174: the markers, in the order they are tried
markers == <<"new_request_marker", "request_marker", "user_request_marker">>

Contains(text, part) == \E k \in DOMAIN text : text[k] = part
FirstIndex(text, part) ==
    CHOOSE k \in DOMAIN text :
        text[k] = part /\ \A j \in 1..(k - 1) : text[j] # part

\* _extract_user_request, lines 173-177
_extract_user_request(text) ==
    LET found == {m \in DOMAIN markers : Contains(text, markers[m])}
        first == CHOOSE m \in found : \A n \in found : m <= n
    IN  IF found = {} THEN text
        ELSE SubSeq(text, FirstIndex(text, markers[first]) + 1, Len(text))

\* lines 210-215
simple_prompt(prompt) == <<"simple_instructions">> \o _extract_user_request(prompt)

\* The running invocation.  stage, step, finish_reason,
\* retry_without_context, max_tokens, prompt and ret are the arguments,
\* position, locals and return value of _call_model; prompt is the prompt of
\* the call to make next.  The other fields record the underlying
\* calls of the invocation: all_raised says that every generate_content call
\* so far raised, seen holds the texts the service returned, src_fr is the
\* finish reason of the call whose text is returned, calls counts the
\* _sync_call calls made, and exc says that an exception left _call_model.
GwIdle ==
    [stage |-> "none", step |-> "idle", finish_reason |-> "NONE",
     retry_without_context |-> FALSE, max_tokens |-> 0, prompt |-> <<>>,
     ret |-> NoText, all_raised |-> TRUE, seen |-> {}, src_fr |-> "NONE",
     calls |-> 0, exc |-> FALSE]

\* entry of _call_model
GwStart(stage, max_output_tokens, retry_without_context) ==
    [GwIdle EXCEPT !.stage = stage, !.step = "first",
                   !.retry_without_context = retry_without_context,
                   !.max_tokens = max_output_tokens,
                   !.prompt = StagePrompt(stage)]

\* lines 208-218: on to the call without context
GwToNoContext(g) ==
    [g EXCEPT !.step = "nocontext", !.max_tokens = NoContextTokens,
              !.prompt = simple_prompt(g.prompt)]

\* one more underlying call has answered r
GwNote(g, r) ==
    [g EXCEPT !.all_raised = g.all_raised /\ r.raises,
              !.seen = g.seen \cup ResponseTexts(r),
              !.calls = g.calls + 1]

\* _call_model returns text to the awaiting stage; its locals are gone
GwReturn(g, text) ==
    [GwIdle EXCEPT !.stage = g.stage, !.step = "done", !.ret = text,
                   !.all_raised = g.all_raised, !.seen = g.seen,
                   !.src_fr = g.src_fr, !.calls = g.calls, !.exc = g.exc]

\* lines 184, 198, 220: the text of the call that finished with fr is returned
GwReturnText(g, c) == GwReturn([g EXCEPT !.src_fr = c.finish_reason], c.result)

\* variant: no except clause at line 239, the exception leaves _call_model
GwOuterExcept_propagates(g) == [GwReturn(g, NoText) EXCEPT !.exc = TRUE]

\* lines 239-241: an exception inside the outer try block
GwOuterExcept(g) == GwReturn(g, NoText)

\* lines 180-207: the first call
GwAfterFirst(g0, r) ==
    LET c == _sync_call(r)
        g == GwNote(g0, r)
        g1 == [g EXCEPT !.finish_reason = c.finish_reason]
    IN  IF c.raised THEN GwOuterExcept(g)
        ELSE IF TextTruthy(c.result) THEN GwReturnText(g1, c)
        ELSE IF c.finish_reason = "MAX_TOKENS"
             THEN [g1 EXCEPT !.step = "expanded",
                             !.max_tokens = expanded_tokens(g.max_tokens)]
        ELSE IF g.retry_without_context
             THEN GwToNoContext(g1)
        ELSE GwReturn(g1, NoTextReturn(c.finish_reason))

\* lines 192-207: the call with the expanded budget; an exception of
\* _sync_call is caught at line 205
GwAfterExpanded(g0, r) ==
    LET c == _sync_call(r)
        g == GwNote(g0, r)
    IN  IF ~c.raised /\ TextTruthy(c.result) THEN GwReturnText(g, c)
        ELSE IF g.retry_without_context
             THEN GwToNoContext(g)
        ELSE GwReturn(g, NoTextReturn(g.finish_reason))

\* lines 208-229: the call without context; an exception of _sync_call is
\* caught at line 228 and leaves finish_reason as it was
GwAfterNoContext(g0, r) ==
    LET c == _sync_call(r)
        g == GwNote(g0, r)
    IN  IF c.raised THEN GwReturn(g, NoTextReturn(g.finish_reason))
        ELSE IF TextTruthy(c.result) THEN GwReturnText(g, c)
        ELSE GwReturn([g EXCEPT !.finish_reason = c.finish_reason],
                      NoTextReturn(c.finish_reason))

(***************************************************************************)
(* Stage functions.  A stage outcome is [raised, val]: raised says that    *)
(* the function raised instead of returning val.                           *)
(***************************************************************************)
Returned(v) == [raised |-> FALSE, val |-> v]
Raised == [raised |-> TRUE, val |-> None]

\* float(value): a number converts, "0.45" is the numeric string of the model,
\* any other string gives ValueError, None/list/dict give TypeError, and an
\* integer too large for a float gives OverflowError.
FloatConverts(value) ==
    value.t = "num" \/ (value.t = "str" /\ value.s = "0.45")
FloatOf(value) == IF value.t = "num" THEN value.n ELSE 45
FloatOverflows(value) == value.t = "bigint"

\* variant: the result is not clamped
_coerce_confidence_noclamp(value, default) ==
    IF FloatConverts(value) THEN FloatOf(value) ELSE default

\* _coerce_confidence, defined where float(value) does not overflow
_coerce_confidence(value, default) ==
    LET res == IF FloatConverts(value) THEN FloatOf(value) ELSE default
    IN  Max(0, Min(100, res))

IntentFailDefault == 50
PlanFailDefault == 50
ChatConfDefault == 50
MethodConfDefault == 70
ReviewFailDefault == 50

\* variant: the failure default names topic OTHER instead of CHAT
IntentDefault_other ==
    Dict([topic |-> Str("OTHER"), intent |-> Str("OTHER"),
          rough_method |-> Str("chat"), complexity |-> Str("simple"),
          confidence |-> Num(50)])

\* lines 361-367
IntentDefault ==
    Dict([topic |-> Str("CHAT"), intent |-> Str("OTHER"),
          rough_method |-> Str("chat"), complexity |-> Str("simple"),
          confidence |-> Num(IntentFailDefault)])

\* analyze_intent, lines 358-374
analyze_intent(raw) ==
    LET parsed == _safe_json_loads(raw)
    IN  IF ~Truthy(parsed) THEN Returned(IntentDefault)
        ELSE IF ~HasGet(parsed) THEN Raised
        ELSE IF FloatOverflows(Get(parsed, "confidence")) THEN Raised
        ELSE Returned(Dict(
            [topic |-> GetOr(parsed, "topic", Str("OTHER")),
             intent |-> GetOr(parsed, "intent", Str("OTHER")),
             rough_method |-> GetOr(parsed, "rough_method", Str("chat")),
             complexity |-> GetOr(parsed, "complexity", Str("simple")),
             confidence |-> Num(_coerce_confidence(Get(parsed, "confidence"),
                                                   IntentFailDefault))]))

\* extract_structure, lines 393-416
extract_structure(raw) ==
    LET parsed == Or(_safe_json_loads(raw), Dict(<<>>))
    IN  IF ~HasGet(parsed) THEN Raised
        ELSE Returned(Dict(
            [title |-> Get(parsed, "title"),
             description |-> Get(parsed, "description"),
             due_datetime_local |-> Get(parsed, "due_datetime_local"),
             priority |-> Get(parsed, "priority"),
             tags |-> IF Get(parsed, "tags").t = "list"
                      THEN Get(parsed, "tags") ELSE None,
             assignees |-> IF Get(parsed, "assignees").t = "list"
                           THEN Get(parsed, "assignees") ELSE None,
             summary |-> Get(parsed, "summary"),
             start_datetime_local |-> Get(parsed, "start_datetime_local"),
             end_datetime_local |-> Get(parsed, "end_datetime_local"),
             all_day |-> Get(parsed, "all_day"),
             body |-> Get(parsed, "body")]))

allowed_methods ==
    {"create_personal_task", "update_personal_task", "list_personal_tasks",
     "create_team_task", "update_team_task", "list_team_tasks",
     "create_or_update_calendar_event", "show_calendar_agenda",
     "write_personal_note", "read_personal_notes", "search_personal_notes",
     "update_personal_note", "delete_personal_note", "chat", "clarify",
     "show_help"}

GenericPlanClarify == Str("generic plan clarification")

\* variant: any string is accepted as a method
NormalizeMethod_anystring(m) == IF m.t = "str" THEN m ELSE Str("chat")

\* line 477
NormalizeMethod(m) ==
    IF m.t = "str" /\ m.s \in allowed_methods THEN m ELSE Str("chat")

\* variant: the question is never defaulted
PlanParams_nodefault(method, params, text) == params

\* lines 485-486
PlanParams(method, params, text) ==
    IF method = Str("chat") /\ ~Truthy(Get(params, "question"))
    THEN Dict(Put(params.d, "question", text))
    ELSE params

\* lines 463-469
PlanFallback(text) ==
    Dict([method |-> Str("chat"),
          params |-> Dict([question |-> text]),
          user_visible_answer |-> None,
          confidence |-> Num(PlanFailDefault),
          clarify_question |-> None])

\* make_plan, lines 463-490
make_plan(raw, text) ==
    LET parsed == Or(_safe_json_loads(raw), Dict(<<>>))
        method == NormalizeMethod(Get(parsed, "method"))
        params == Or(Get(parsed, "params"), Dict(<<>>))
        conf == _coerce_confidence(Get(parsed, "confidence"),
                    IF method = Str("chat") THEN ChatConfDefault
                    ELSE MethodConfDefault)
        cq == Get(parsed, "clarify_question")
        params2 == PlanParams(method, params, text)
        cq2 == IF method = Str("clarify") /\ ~Truthy(cq)
               THEN GenericPlanClarify ELSE cq
    IN  IF ~TextTruthy(raw) \/ ~Truthy(parsed)
        THEN Returned(PlanFallback(text))
        ELSE IF ~HasGet(parsed) THEN Raised
        ELSE IF FloatOverflows(Get(parsed, "confidence")) THEN Raised
        ELSE IF method = Str("chat") /\ ~HasGet(params) THEN Raised
        ELSE Returned(Dict(
            [method |-> method,
             params |-> params2,
             user_visible_answer |-> Or(Get(parsed, "user_visible_answer"), None),
             confidence |-> Num(conf),
             clarify_question |-> cq2]))

\* variant: a failed review counts as a rejection
ReviewDefault_rejects ==
    Dict([quality |-> Num(0), problems |-> List(0), clarify_question |-> None])

\* lines 508-513
ReviewDefault ==
    Dict([quality |-> Num(ReviewFailDefault), problems |-> List(0),
          clarify_question |-> None])

\* review_plan, lines 506-518
review_plan(raw) ==
    LET parsed == _safe_json_loads(raw)
    IN  IF ~Truthy(parsed)
        THEN Returned(ReviewDefault)
        ELSE IF ~HasGet(parsed) THEN Raised
        ELSE IF FloatOverflows(Get(parsed, "quality")) THEN Raised
        ELSE Returned(Dict(
            [quality |-> Num(_coerce_confidence(Get(parsed, "quality"),
                                                ReviewFailDefault)),
             problems |-> Or(Get(parsed, "problems"), List(0)),
             clarify_question |-> Get(parsed, "clarify_question")]))

(***************************************************************************)
(* process_user_request: the glue between the stages and the gate.         *)
(***************************************************************************)
FallbackConfidence == 30
ChatConfidence == 100
GateLow == 30
GateClarify == 50
GateHigh == 80

GenericGateClarify == Str("generic gate clarification")
ContextText == Str("context text")

\* variant: the fallback carries confidence 0
fallback_plan_zero(text) ==
    Dict([method |-> Str("chat"),
          params |-> Dict([question |-> text]),
          user_visible_answer |-> None,
          confidence |-> Num(0),
          clarify_question |-> None,
          original_question |-> text])

\* lines 553-560
fallback_plan(text) ==
    Dict([method |-> Str("chat"),
          params |-> Dict([question |-> text]),
          user_visible_answer |-> None,
          confidence |-> Num(FallbackConfidence),
          clarify_question |-> None,
          original_question |-> text])

\* variant: no except clause, the exception propagates
OnException_propagates(text) == Raised

\* the except clause of lines 616-618
OnException(text) == Returned(fallback_plan(text))

ChatApology == Plain("model unavailable apology")

\* variant: the answer of the gateway is returned as it is
free_chat_raw(text) == text

\* line 566
IsChatTopic_never(i) == FALSE
IsChatTopic(i) == Get(i, "topic") = Str("CHAT")

\* free_chat, line 544: text or the fixed apology
free_chat(text) == IF TextTruthy(text) THEN text ELSE ChatApology

\* variant: the free-chat answer is not put into the plan
chat_plan_noanswer(text, answer) ==
    Dict([method |-> Str("chat"),
          params |-> Dict([question |-> text, context_text |-> ContextText]),
          user_visible_answer |-> None,
          confidence |-> Num(100),
          clarify_question |-> None,
          original_question |-> text])

\* lines 568-575
chat_plan(text, answer) ==
    Dict([method |-> Str("chat"),
          params |-> Dict([question |-> text, context_text |-> ContextText]),
          user_visible_answer |-> AsStr(answer),
          confidence |-> Num(ChatConfidence),
          clarify_question |-> None,
          original_question |-> text])

\* _ensure_task_deadline_for_calendar, lines 252-263
_ensure_task_deadline_for_calendar(p, st) ==
    LET params == Or(Get(p, "params"), Dict(<<>>))
        due_dt == Or(Get(st, "due_datetime"), Get(st, "due_datetime_local"))
    IN  IF Get(p, "method") \notin {Str("create_personal_task"), Str("create_team_task")}
        THEN Returned(p)
        ELSE IF ~Truthy(due_dt) THEN Returned(p)
        ELSE IF ~HasGet(params) THEN Raised
        ELSE IF Truthy(Get(params, "due_datetime")) THEN Returned(p)
        ELSE Returned(Dict(Put(p.d, "params",
                               Dict(Put(params.d, "due_datetime", due_dt)))))

\* lines 578-581
PlanStage(raw, text, st) ==
    LET made == make_plan(raw, text)
        ensured == _ensure_task_deadline_for_calendar(made.val, st)
    IN  IF made.raised THEN Raised
        ELSE IF ensured.raised THEN Raised
        ELSE Returned(Dict(Put(ensured.val.d, "original_question", text)))

\* variant: the clarify plan carries full confidence
clarify_plan_fullconf(text, quality, answer, clarify_question) ==
    Dict([method |-> Str("clarify"),
          params |-> Dict(<<>>),
          user_visible_answer |-> answer,
          confidence |-> Num(100),
          clarify_question |-> clarify_question,
          original_question |-> text])

\* lines 595-602 and 606-613
clarify_plan(text, quality, answer, clarify_question) ==
    Dict([method |-> Str("clarify"),
          params |-> Dict(<<>>),
          user_visible_answer |-> answer,
          confidence |-> quality,
          clarify_question |-> clarify_question,
          original_question |-> text])

\* variant: the intent confidence is not looked at
GateRejects_nointent(i, p, quality) ==
    \/ ~Truthy(Get(p, "method"))
    \/ _coerce_confidence(quality, 0) < 30

\* lines 587-591
GateRejects(i, p, quality) ==
    \/ _coerce_confidence(Get(i, "confidence"), 0) < GateLow
    \/ ~Truthy(Get(p, "method"))
    \/ _coerce_confidence(quality, 0) < GateLow

\* variant: the clarify band is compared with the lower threshold
GateAsksLow_wrongbound(quality) == quality.n < 30

\* line 594
GateAsksLow(quality) == quality.n < GateClarify

\* variant: the upper threshold is not looked at
GateAsksMid_anyquality(quality, clarify_question) ==
    GateClarify <= quality.n /\ Truthy(clarify_question)

\* line 605
GateAsksMid(quality, clarify_question) ==
    GateClarify <= quality.n /\ quality.n < GateHigh /\ Truthy(clarify_question)

\* variant: the generic prompt is always used
LowClarifyAnswer_generic(clarify_question) == Str("generic gate clarification")

\* lines 598-599
LowClarifyAnswer(clarify_question) == Or(clarify_question, GenericGateClarify)

\* the gate, lines 584-615
Gate(i, p, rv, text) ==
    LET quality == GetOr(rv, "quality", Num(0))
        clarify_question == Get(rv, "clarify_question")
    IN  IF GateRejects(i, p, quality) THEN fallback_plan(text)
        ELSE IF GateAsksLow(quality)
        THEN clarify_plan(text, quality, LowClarifyAnswer(clarify_question),
                          clarify_question)
        ELSE IF GateAsksMid(quality, clarify_question)
        THEN clarify_plan(text, quality, clarify_question, clarify_question)
        ELSE p

(***************************************************************************)
(* Action Executor: execute_plan.                                          *)
(***************************************************************************)
METHOD_MAP ==
    {"write_personal_note", "read_personal_notes", "search_personal_notes",
     "update_personal_note", "delete_personal_note", "create_personal_task",
     "update_personal_task", "list_personal_tasks", "create_team_task",
     "update_team_task", "list_team_tasks", "create_or_update_calendar_event",
     "show_calendar_agenda", "show_help", "debug_on", "debug_off",
     "debug_status", "chat"}

\* handlers that touch notes, tasks or the calendar
CapabilityMethods ==
    METHOD_MAP \ {"show_help", "debug_on", "debug_off", "debug_status", "chat"}

\* variant: every method has an action type
action_type_map_any(method) == "ACTION"

\* _log_action_safe, lines 62-71
action_type_map(method) ==
    CASE method \in {"create_personal_task", "create_team_task"} -> "TASK_CREATED"
      [] method \in {"update_personal_task", "update_team_task"} -> "TASK_UPDATED"
      [] method = "create_or_update_calendar_event" -> "CALENDAR_EVENT_CREATED"
      [] method = "write_personal_note" -> "NOTE_CREATED"
      [] method = "update_personal_note" -> "NOTE_UPDATED"
      [] method = "delete_personal_note" -> "NOTE_DELETED"
      [] OTHER -> "NONE"

LogMaxLen == 50

\* variant: the deque has no maxlen
DequeAppend_unbounded(q, x) == Append(q, x)

\* deque(maxlen=50).append
DequeAppend(q, x) ==
    IF Len(q) >= LogMaxLen THEN Append(Tail(q), x) ELSE Append(q, x)

\* _log_action_safe with a valid telegram_user_id; an entry is kept by its type
_log_action_safe(log, method) ==
    IF action_type_map(method) = "NONE" THEN log
    ELSE DequeAppend(log, action_type_map(method))

\* What a handler of METHOD_MAP may do with well-formed keyword arguments:
\* google_service.create_personal_task catches every error and returns a
\* failure sentence (lines 483-510), default_help returns the help text, and
\* the other handlers return a sentence or raise.
HandlerOutcomes(method, params) ==
    CASE method = "create_personal_task" ->
            {Returned(Str("task created")), Returned(Str("google failure"))}
      [] method = "show_help" -> {Returned(Str("help text"))}
      [] method = "debug_on" -> {Returned(Str("debug enabled"))}
      [] method = "debug_off" -> {Returned(Str("debug disabled"))}
      [] method = "update_personal_task" ->
            \* task_id and fields are required arguments (line 513): without
            \* them the call raises TypeError
            IF {"task_id", "fields"} \subseteq DOMAIN params.d
            THEN {Returned(Str("task updated")), Returned(Str("task not found")),
                  Raised}
            ELSE {Raised}
      [] OTHER -> {Returned(Str("handler answer")), Raised}

\* debug_service.debug_on / debug_off as handlers (lines 20-39), with a valid
\* telegram_user_id: the flag of the user after the handler returned
HandlerFlag(method, flag) ==
    CASE method = "debug_on" -> TRUE
      [] method = "debug_off" -> FALSE
      [] OTHER -> flag

ExecApology == Str("command failed apology")
InvalidPlanAnswer == Str("invalid plan apology")

\* variant: the plan is not attached to the apology
OnHandlerError_noplan(p) ==
    Dict([user_visible_answer |-> ExecApology, extra_data |-> None,
          debug |-> None])

\* lines 149-154: the except clause around the handler call
OnHandlerError(p) ==
    Dict([user_visible_answer |-> ExecApology, extra_data |-> p,
          debug |-> None])

\* variant: the flag is not looked at
DebugTail_always(flag, method, confidence, params) ==
    Dict([method |-> method, confidence |-> confidence,
          params_keys |-> Dict([k \in DOMAIN params.d |-> None])])

\* lines 119-124 and 161-165: the debug tail
DebugTail(flag, method, confidence, params) ==
    IF flag
    THEN Dict([method |-> method, confidence |-> confidence,
               params_keys |-> Dict([k \in DOMAIN params.d |-> None])])
    ELSE None

CommandResult(answer, extra, tail) ==
    Dict([user_visible_answer |-> answer, extra_data |-> extra, debug |-> tail])

\* lines 90-94
XMethod(p) == Or(Get(p, "method"), Str("chat"))
XParams(p) == Or(Get(p, "params"), Dict(<<>>))
XConfidence(p) ==
    IF Get(p, "confidence").t = "null" THEN Num(0) ELSE Get(p, "confidence")

\* lines 90-97: the plan cannot be read
PlanUnreadable(p) ==
    \/ ~HasGet(p)
    \/ Get(p, "confidence").t \notin {"null", "num"}

\* variant: the method is not compared with "chat"
QuickChat_anymethod(p) == Truthy(Get(p, "user_visible_answer"))

\* lines 110-127
QuickChat(p) ==
    XMethod(p) = Str("chat") /\ Truthy(Get(p, "user_visible_answer"))

\* lines 129-132
ClarifyPath(p) ==
    XMethod(p) = Str("clarify") \/ Truthy(Get(p, "clarify_question"))

\* variant: no fixed question stands in for a missing one
ClarifyAnswer_nofallback(p) ==
    Or(Get(p, "clarify_question"), Get(p, "user_visible_answer"))

\* lines 130-132
ClarifyAnswer(p) ==
    Or(Or(Get(p, "clarify_question"), Get(p, "user_visible_answer")),
       GenericGateClarify)

\* lines 134-140
HandlerKnown(p) == XMethod(p).t = "str" /\ XMethod(p).s \in METHOD_MAP
HandlerName(p) == IF HandlerKnown(p) THEN XMethod(p).s ELSE "chat"
HandlerParams(p) ==
    IF HandlerKnown(p) THEN XParams(p)
    ELSE Dict([question |-> Or(Or(Or(Get(XParams(p), "question"),
                                     Get(p, "user_visible_answer")),
                                  Get(p, "original_question")), Str("")),
               context_text |-> Or(Get(XParams(p), "context_text"), ContextText)])

(***************************************************************************)
(* What the model service may answer.  A JSON object is reduced to the     *)
(* keys the reading stage looks up; Missing marks a key the object lacks.  *)
(***************************************************************************)
Missing == V("missing", 0, "", <<>>)
Obj(f) == Json(Dict([k \in {x \in DOMAIN f : f[x] # Missing} |-> f[k]]))

\* texts that are not a JSON object: not JSON, a non-empty list, an empty list
NonObjectTexts == {Plain("not json"), Json(List(1)), Json(List(0))}

UserTexts == {Str("remind me to call"), Str("hello")}

IntentTexts ==
    {Obj([topic |-> t, confidence |-> c]) :
        t \in {Str("CHAT"), Str("PERSONAL_TASK")},
        c \in {Missing, Num(20), Num(30), Num(150), Str("high"), BigInt}}
    \cup {Obj([topic |-> Missing, confidence |-> Num(90)])}
    \cup NonObjectTexts

StructureTexts ==
    {Obj([due_datetime_local |-> d, tags |-> g]) :
        d \in {Missing, Str("tomorrow 18:00")},
        g \in {Missing, List(2), Str("tag")}}
    \cup NonObjectTexts

PlanTexts ==
    {Obj([method |-> m, params |-> q, confidence |-> c,
          user_visible_answer |-> a, clarify_question |-> cq]) :
        m \in {Missing, Str("create_personal_task"), Str("update_personal_task"),
               Str("show_help"), Str("clarify"), Str("chat"),
               Str("drop_all_tasks")},
        q \in {Missing, Dict([question |-> Str("model question")]),
               Dict([title |-> Str("call"), due_datetime |-> Str("friday")]),
               List(1)},
        c \in {Missing, Num(150)},
        a \in {Missing, Str("plan answer")},
        cq \in {Missing, Str("plan question")}}
    \cup NonObjectTexts

ReviewTexts ==
    {Obj([quality |-> q, clarify_question |-> cq]) :
        q \in {Missing, Num(-10), Num(20), Num(30), Str("0.45"), Num(79),
               Num(80), Num(150), BigInt},
        cq \in {Missing, Str("review question")}}
    \cup NonObjectTexts

ChatTexts == {Plain("chat answer"), Json(List(1))}

StageTexts(stage) ==
    CASE stage = "intent" -> IntentTexts
      [] stage = "structure" -> StructureTexts
      [] stage = "plan" -> PlanTexts
      [] stage = "review" -> ReviewTexts
      [] OTHER -> ChatTexts

\* text of a candidate part: a fragment, or nothing
PartTexts == {Plain("fragment"), EmptyText}

FinishReasons ==
    {None, Num(1), Num(2), Str("SAFETY"), Str("BLOCKED")}

Responses(stage) ==
    {Raises, Resp(NoText, 0, None, <<>>)}
    \cup {Resp(t, 1, Num(1), <<t>>) : t \in StageTexts(stage)}
    \cup {Resp(NoText, 1, fr, <<>>) : fr \in FinishReasons}
    \cup {Resp(NoText, 1, fr, ps) :
            fr \in {Num(1), Num(2), Str("SAFETY")},
            ps \in SeqsUpTo(PartTexts, MaxParts) \ {<<>>}}
    \cup {Resp(Plain("fragment"), 1, Str("SAFETY"), <<Plain("fragment")>>)}
    \cup {Resp(NoText, 1, Num(1), <<BadPart>>)}

(***************************************************************************)
(* State machine.                                                          *)
(***************************************************************************)
TruncIdle == [step |-> "idle", text |-> <<>>, max_chars |-> 1, out |-> <<>>]

\* no retry wrapper is running
RetryIdle == [wrapper |-> "none", step |-> "idle", attempt |-> 0, tried |-> <<>>,
              slept |-> <<>>]

\* The keys of the three per-user dictionaries: the users' telegram ids and
\* 0, the default of profile.get("telegram_user_id", 0).
Users == {1, 2}
Keys == {0} \cup Users

\* no operation on the stores yet; method and limit are arguments of the last
\* operation and out is the list get_recent_history returned
StoreOpIdle ==
    [name |-> "none", actor |-> 0, raised |-> FALSE, method |-> "", limit |-> 0,
     out |-> <<>>, ops |-> 0]

\* the dictionaries as the modules create them (dialog_history.py line 7,
\* action_log.py line 8, debug_service.py line 13)
StoresEmpty ==
    /\ _HISTORY = [k \in Keys |-> <<>>]
    /\ _ACTIONS = [k \in Keys |-> <<>>]
    /\ _user_debug_flags = [k \in Keys |-> "unset"]
    /\ store_op = StoreOpIdle

\* no call of make_plan is followed
MkIdle == [step |-> "idle", raw |-> NoText, text |-> None, out |-> Raised]

\* the worker threads asyncio.to_thread runs the handlers on
Threads == {1, 2}

ThreadIdle ==
    [op |-> "", pc |-> "idle", user |-> 0, id |-> 0, keep |-> <<>>, pos |-> 0,
     result |-> ""]

\* the data rows of the sheets (A2:Z), no handler running
GsWith(notes, tasks) ==
    [data |-> [PersonalNotes |-> notes, PersonalTasks |-> tasks],
     th |-> [t \in Threads |-> ThreadIdle],
     next_id |-> 3, calls |-> 0, saved |-> {}, targets |-> {},
     requesters |-> {}, failed |-> FALSE]

GsIdle == GsWith(<<>>, <<>>)

MoreIdle == mk = MkIdle /\ gs = GsIdle

SideIdle == retry = RetryIdle /\ StoresEmpty /\ MoreIdle

Init ==
    /\ trunc = TruncIdle
    /\ SideIdle
    /\ pc = "idle"
    /\ user_text = None
    /\ gw = GwIdle
    /\ intent = None
    /\ structured = None
    /\ plan = None
    /\ review = None
    /\ result = None
    /\ escaped = ""
    /\ unreachable = TRUE
    /\ model_method = None
    /\ stage_raised = {}
    /\ reply = None
    /\ handler_calls = <<>>
    /\ handler_raised = FALSE
    /\ actions = <<>>
    /\ debug_flag = FALSE
    /\ requests = 0
    /\ invocations = <<>>

execState == <<reply, handler_calls, handler_raised, actions, debug_flag>>

\* variant: building the context records an action of its own
LogAfterSummary_logs(log) == DequeAppend(log, "CONTEXT_BUILT")

\* build_context_for_user, ai_service.py lines 303-304: get_recent_history and
\* get_recent_actions_summary work on list(...) copies of the deques
\* (dialog_history.py line 19, action_log.py line 23); the log afterwards
LogAfterSummary(log) == log

\* process_user_request is entered: context is built and the Intent stage
\* calls the gateway (lines 562-564, 358)
Start ==
    /\ pc = "idle"
    /\ requests < MaxRequests
    /\ \E t \in UserTexts : user_text' = t
    /\ requests' = requests + 1
    /\ gw' = GwStart("intent", 200, FALSE)
    /\ invocations' = <<"intent">>
    /\ pc' = "intent"
    /\ actions' = LogAfterSummary(actions)
    /\ UNCHANGED <<intent, structured, plan, review, result, escaped,
                   unreachable, model_method, stage_raised, reply,
                   handler_calls, handler_raised, debug_flag>>
    /\ UNCHANGED aux

\* _call_model is entered when the step leaves g at its first call
Entered(inv, g) == IF g.step = "first" THEN Append(inv, g.stage) ELSE inv

\* one underlying call of the running _call_model
CallFirst ==
    /\ gw.step = "first"
    /\ \E r \in Responses(gw.stage) :
            /\ gw' = GwAfterFirst(gw, r)
            /\ unreachable' = (unreachable /\ r.raises)
    /\ UNCHANGED <<pc, user_text, intent, structured, plan, review, result,
                   escaped, model_method, stage_raised, execState, requests,
                   invocations>>
    /\ UNCHANGED aux

CallExpanded ==
    /\ gw.step = "expanded"
    /\ \E r \in Responses(gw.stage) :
            /\ gw' = GwAfterExpanded(gw, r)
            /\ unreachable' = (unreachable /\ r.raises)
    /\ UNCHANGED <<pc, user_text, intent, structured, plan, review, result,
                   escaped, model_method, stage_raised, execState, requests,
                   invocations>>
    /\ UNCHANGED aux

CallNoContext ==
    /\ gw.step = "nocontext"
    /\ \E r \in Responses(gw.stage) :
            /\ gw' = GwAfterNoContext(gw, r)
            /\ unreachable' = (unreachable /\ r.raises)
    /\ UNCHANGED <<pc, user_text, intent, structured, plan, review, result,
                   escaped, model_method, stage_raised, execState, requests,
                   invocations>>
    /\ UNCHANGED aux

\* process_user_request returns p
ReturnPlan(p) ==
    /\ result' = p
    /\ pc' = "returned"
    /\ gw' = GwIdle
    /\ escaped' = escaped

\* a stage raised inside the try block of process_user_request
StageFailed(stage) ==
    LET h == OnException(user_text)
    IN  /\ stage_raised' = stage_raised \cup {stage}
        /\ IF h.raised
           THEN /\ escaped' = "process_user_request"
                /\ pc' = "done"
                /\ gw' = GwIdle
                /\ result' = None
           ELSE ReturnPlan(h.val)

\* variant: the Structure stage is run again after the Plan stage
StageAfter_backtracks(stage) ==
    CASE stage = "intent" -> "structure"
      [] stage = "structure" -> "plan"
      [] stage = "plan" -> "structure"

\* lines 564-582: the stage that process_user_request awaits once stage has
\* returned
StageAfter(stage) ==
    CASE stage = "intent" -> "structure"
      [] stage = "structure" -> "plan"
      [] stage = "plan" -> "review"

\* max_output_tokens of the stages, lines 390, 463 and 506
StageTokens(stage) ==
    CASE stage = "structure" -> 400
      [] stage = "plan" -> 512
      [] stage = "review" -> 256

\* the stage named by StageAfter(stage) calls the gateway
StartStage(stage) ==
    /\ gw' = GwStart(StageAfter(stage), StageTokens(StageAfter(stage)), FALSE)
    /\ pc' = StageAfter(stage)

\* analyze_intent returns; lines 566-567 and 577
IntentDone ==
    /\ pc = "intent"
    /\ gw.step = "done"
    /\ LET o == analyze_intent(gw.ret)
       IN  IF o.raised
           THEN StageFailed("intent") /\ intent' = intent
           ELSE /\ intent' = o.val
                /\ IF IsChatTopic(o.val)
                   THEN gw' = GwStart("chat", 400, TRUE) /\ pc' = "chat"
                   ELSE StartStage("intent")
                /\ UNCHANGED <<result, escaped, stage_raised>>
    /\ invocations' = Entered(invocations, gw')
    /\ UNCHANGED <<user_text, structured, plan, review, unreachable,
                   model_method, execState, requests>>
    /\ UNCHANGED aux

\* free_chat returns; lines 567-575
ChatDone ==
    /\ pc = "chat"
    /\ gw.step = "done"
    /\ ReturnPlan(chat_plan(user_text, free_chat(gw.ret)))
    /\ UNCHANGED <<user_text, intent, structured, plan, review, stage_raised,
                   unreachable, model_method, execState, requests,
                   invocations>>
    /\ UNCHANGED aux

\* extract_structure returns; lines 577-578
StructureDone ==
    /\ pc = "structure"
    /\ gw.step = "done"
    /\ LET o == extract_structure(gw.ret)
       IN  IF o.raised
           THEN StageFailed("structure") /\ structured' = structured
           ELSE /\ structured' = o.val
                /\ StartStage("structure")
                /\ UNCHANGED <<result, escaped, stage_raised>>
    /\ invocations' = Entered(invocations, gw')
    /\ UNCHANGED <<user_text, intent, plan, review, unreachable, model_method,
                   execState, requests>>
    /\ UNCHANGED aux

\* make_plan returns; lines 578-582.  structured is not read after line 580.
PlanDone ==
    /\ pc = "plan"
    /\ gw.step = "done"
    /\ LET o == PlanStage(gw.ret, user_text, structured)
       IN  IF o.raised
           THEN StageFailed("plan") /\ plan' = plan
           ELSE /\ plan' = o.val
                /\ StartStage("plan")
                /\ UNCHANGED <<result, escaped, stage_raised>>
    /\ structured' = None
    /\ model_method' = Get(_safe_json_loads(gw.ret), "method")
    /\ invocations' = Entered(invocations, gw')
    /\ UNCHANGED <<user_text, intent, review, unreachable, execState, requests>>
    /\ UNCHANGED aux

\* review_plan returns and the gate decides; lines 582-615
ReviewDone ==
    /\ pc = "review"
    /\ gw.step = "done"
    /\ LET o == review_plan(gw.ret)
       IN  IF o.raised
           THEN StageFailed("review") /\ review' = review
           ELSE /\ review' = o.val
                /\ ReturnPlan(Gate(intent, plan, o.val, user_text))
                /\ stage_raised' = stage_raised
    /\ model_method' = None
    /\ UNCHANGED <<user_text, intent, structured, plan, unreachable, execState,
                   requests,
                   invocations>>
    /\ UNCHANGED aux

\* execute_plan(profile, result), up to the handler call
ExecutePlan ==
    /\ pc = "returned"
    /\ LET p == result
           method == XMethod(p)
           params == XParams(p)
           confidence == XConfidence(p)
       IN
       IF PlanUnreadable(p)
       THEN /\ reply' = CommandResult(InvalidPlanAnswer, None, None)
            /\ pc' = "done"
            /\ UNCHANGED <<gw, escaped, handler_calls, actions>>
            /\ handler_raised' = FALSE
       ELSE IF QuickChat(p)
       THEN IF ~HasGet(params) /\ debug_flag
            THEN \* line 122: .keys() of a value that is not a dict
                 /\ escaped' = "execute_plan"
                 /\ pc' = "done"
                 /\ UNCHANGED <<gw, reply, handler_calls, actions>>
                 /\ handler_raised' = FALSE
            ELSE /\ reply' = CommandResult(Get(p, "user_visible_answer"), None,
                                 DebugTail(debug_flag, method, confidence, params))
                 /\ pc' = "done"
                 /\ UNCHANGED <<gw, escaped, handler_calls, actions>>
                 /\ handler_raised' = FALSE
       ELSE IF ClarifyPath(p)
       THEN /\ reply' = CommandResult(ClarifyAnswer(p), None, None)
            /\ pc' = "done"
            /\ UNCHANGED <<gw, escaped, handler_calls, actions>>
            /\ handler_raised' = FALSE
       ELSE IF ~HandlerKnown(p) /\ ~HasGet(params)
       THEN \* lines 137-140: params.get of a value that is not a dict
            /\ escaped' = "execute_plan"
            /\ pc' = "done"
            /\ UNCHANGED <<gw, reply, handler_calls, actions>>
            /\ handler_raised' = FALSE
       ELSE IF ~HasGet(HandlerParams(p))
       THEN \* handler(profile, **params) with params that is not a mapping
            /\ reply' = OnHandlerError(p)
            /\ pc' = "done"
            /\ UNCHANGED <<gw, escaped, handler_calls, actions>>
            /\ handler_raised' = FALSE
       ELSE IF HandlerName(p) = "chat"
       THEN \* chat_handler awaits free_chat, which calls the gateway
            /\ handler_calls' = Append(handler_calls, "chat")
            /\ gw' = GwStart("exec_chat", 400, TRUE)
            /\ pc' = "exec_chat"
            /\ handler_raised' = FALSE
            /\ UNCHANGED <<reply, escaped, actions>>
       ELSE \E o \in HandlerOutcomes(HandlerName(p), HandlerParams(p)) :
            /\ handler_calls' = Append(handler_calls, HandlerName(p))
            /\ handler_raised' = o.raised
            /\ gw' = gw
            /\ escaped' = escaped
            /\ pc' = "done"
            /\ IF o.raised
               THEN /\ reply' = OnHandlerError(p)
                    /\ actions' = actions
               ELSE /\ reply' = CommandResult(o.val, None,
                            DebugTail(HandlerFlag(HandlerName(p), debug_flag),
                                      method, confidence, HandlerParams(p)))
                    /\ actions' = _log_action_safe(actions, HandlerName(p))
    /\ model_method' = None
    /\ plan' = None
    /\ invocations' = Entered(invocations, gw')
    /\ debug_flag' = IF handler_calls' # handler_calls /\ ~handler_raised'
                     THEN HandlerFlag(HandlerName(result), debug_flag)
                     ELSE debug_flag
    /\ UNCHANGED <<user_text, intent, structured, review, result,
                   unreachable, stage_raised, requests>>
    /\ UNCHANGED aux

\* chat_handler returns inside execute_plan; lines 147-166
ExecChatDone ==
    /\ pc = "exec_chat"
    /\ gw.step = "done"
    /\ reply' = CommandResult(AsStr(free_chat(gw.ret)), None,
                    DebugTail(debug_flag, XMethod(result), XConfidence(result),
                              HandlerParams(result)))
    /\ actions' = _log_action_safe(actions, "chat")
    /\ gw' = GwIdle
    /\ pc' = "done"
    /\ UNCHANGED <<user_text, intent, structured, plan, review, result, escaped,
                   unreachable, model_method, stage_raised, handler_calls, handler_raised,
                   debug_flag, requests,
                   invocations>>
    /\ UNCHANGED aux

\* the request is over; the next message starts from the stores as they are
Finish ==
    /\ pc = "done"
    /\ pc' = "idle"
    /\ user_text' = None
    /\ intent' = None
    /\ structured' = None
    /\ plan' = None
    /\ review' = None
    /\ result' = None
    /\ reply' = None
    /\ escaped' = ""
    /\ unreachable' = TRUE
    /\ stage_raised' = {}
    /\ handler_calls' = <<>>
    /\ handler_raised' = FALSE
    /\ invocations' = <<>>
    /\ UNCHANGED <<gw, model_method, actions, debug_flag, requests>>
    /\ UNCHANGED aux

\* debug_service.debug_on / debug_off with a valid telegram_user_id
debug_on ==
    /\ pc = "idle"
    /\ debug_flag' = TRUE
    /\ UNCHANGED <<pc, user_text, gw, intent, structured, plan, review, result,
                   escaped, unreachable, model_method, stage_raised, reply,
                   handler_calls, handler_raised, actions, requests,
                   invocations>>
    /\ UNCHANGED aux

debug_off ==
    /\ pc = "idle"
    /\ debug_flag' = FALSE
    /\ UNCHANGED <<pc, user_text, gw, intent, structured, plan, review, result,
                   escaped, unreachable, model_method, stage_raised, reply,
                   handler_calls, handler_raised, actions, requests,
                   invocations>>
    /\ UNCHANGED aux

Next ==
    \/ Start
    \/ CallFirst
    \/ CallExpanded
    \/ CallNoContext
    \/ IntentDone
    \/ ChatDone
    \/ StructureDone
    \/ PlanDone
    \/ ReviewDone
    \/ ExecutePlan
    \/ ExecChatDone
    \/ Finish
    \/ debug_on
    \/ debug_off

Spec == Init /\ [][Next]_vars

(***************************************************************************)
(* truncate_text on its own: every text up to MaxTextLen characters and    *)
(* every max_chars from 1 to MaxChars.                                     *)
(***************************************************************************)
TextOfLen(n) == [i \in 1..n |-> ToString(i)]

TruncInit ==
    /\ SideIdle
    /\ pc = "idle"
    /\ user_text = None
    /\ gw = GwIdle
    /\ intent = None
    /\ structured = None
    /\ plan = None
    /\ review = None
    /\ result = None
    /\ escaped = ""
    /\ unreachable = TRUE
    /\ model_method = None
    /\ stage_raised = {}
    /\ reply = None
    /\ handler_calls = <<>>
    /\ handler_raised = FALSE
    /\ actions = <<>>
    /\ debug_flag = FALSE
    /\ requests = 0
    /\ invocations = <<>>
    /\ \E n \in 0..MaxTextLen, m \in 1..MaxChars :
           trunc = [step |-> "call", text |-> TextOfLen(n), max_chars |-> m,
                    out |-> <<>>]

\* truncate_text(text, max_chars) returns
Truncate ==
    /\ trunc.step = "call"
    /\ trunc' = [trunc EXCEPT !.step = "returned",
                              !.out = truncate_text(trunc.text, trunc.max_chars)]
    /\ UNCHANGED <<pipeline, retry, stores, more>>

TruncNext == Truncate

TruncSpec == TruncInit /\ [][TruncNext]_vars

(***************************************************************************)
(* execute_plan on its own: the transport hands it the plan of a make_plan *)
(* answer or any plan of ExecPlans, with the debug flag on or off.         *)
(***************************************************************************)
ExecPlans(text) ==
    {Dict([method |-> m, params |-> Dict(<<>>), user_visible_answer |-> a,
           confidence |-> c, clarify_question |-> q,
           original_question |-> text]) :
        m \in {None, Str("clarify"), Str("chat"), Str("update_personal_task"),
               Str("debug_on"), Str("debug_off")},
        a \in {None, Str("plan answer")},
        c \in {Num(60), Str("high")},
        q \in {None, Str(""), Str("plan question")}}

MadePlans(text) ==
    {make_plan(raw, text).val :
        raw \in {x \in PlanTexts \cup {NoText} : ~make_plan(x, text).raised}}

ExecInit ==
    /\ trunc = TruncIdle
    /\ SideIdle
    /\ pc = "returned"
    /\ user_text \in UserTexts
    /\ gw = GwIdle
    /\ intent = None
    /\ structured = None
    /\ plan \in MadePlans(user_text)
    /\ review = None
    /\ result \in {Dict(Put(plan.d, "original_question", user_text))}
                      \cup ExecPlans(user_text)
    /\ escaped = ""
    /\ unreachable = TRUE
    /\ model_method = None
    /\ stage_raised = {}
    /\ reply = None
    /\ handler_calls = <<>>
    /\ handler_raised = FALSE
    /\ actions = <<>>
    /\ debug_flag \in BOOLEAN
    /\ requests = 1
    /\ invocations = <<>>

ExecNext ==
    \/ ExecutePlan
    \/ CallFirst
    \/ CallExpanded
    \/ CallNoContext
    \/ ExecChatDone

ExecSpec == ExecInit /\ [][ExecNext]_vars

(***************************************************************************)
(* The retry wrappers of google_service, followed on their own: one call   *)
(* of _with_retries or _with_retries_caldav around a function func.        *)
(***************************************************************************)
PipelineIdle ==
    /\ pc = "idle"
    /\ user_text = None
    /\ gw = GwIdle
    /\ intent = None
    /\ structured = None
    /\ plan = None
    /\ review = None
    /\ result = None
    /\ escaped = ""
    /\ unreachable = TRUE
    /\ model_method = None
    /\ stage_raised = {}
    /\ reply = None
    /\ handler_calls = <<>>
    /\ handler_raised = FALSE
    /\ actions = <<>>
    /\ debug_flag = FALSE
    /\ requests = 0
    /\ invocations = <<>>

\* line 115, and the literal of line 133
max_attempts == 3

\* What one call of func does: it returns, or raises an HttpError with a
\* transient status (429, 503), an HttpError with a structural status (400,
\* 403, 404), an OSError, or an exception of another class (ValueError,
\* KeyError, a CalDAV authorisation or not-found error).
Outcomes ==
    {"ok", "http_transient", "http_structural", "os_error", "other_error"}

\* the except clauses: lines 119 and 125 of _with_retries, line 136 of
\* _with_retries_caldav
Caught(wrapper, outcome) ==
    IF wrapper = "caldav" THEN outcome # "ok"
    ELSE outcome \in {"http_transient", "http_structural", "os_error"}

\* variant: the test for the last attempt is off by one
Exhausted_late(attempt) == attempt >= max_attempts

\* lines 122, 127 and 138
Exhausted(attempt) == attempt >= max_attempts - 1

\* time.sleep, lines 124, 129 and 140
Delay(wrapper, attempt) ==
    IF wrapper = "caldav" THEN 2 + attempt * 2 ELSE 1 + attempt

\* one iteration of the for loop, lines 116-129 and 133-140; a loop that ran
\* out would return None
AfterAttempt(r, outcome) ==
    LET t == [r EXCEPT !.tried = Append(r.tried, outcome)]
    IN  IF outcome = "ok" THEN [t EXCEPT !.step = "returned"]
        ELSE IF ~Caught(r.wrapper, outcome) THEN [t EXCEPT !.step = "raised"]
        ELSE IF Exhausted(r.attempt) THEN [t EXCEPT !.step = "raised"]
        ELSE IF r.attempt + 1 < max_attempts
             THEN [t EXCEPT !.attempt = r.attempt + 1,
                            !.slept = Append(r.slept, Delay(r.wrapper, r.attempt))]
        ELSE [t EXCEPT !.step = "fell_through"]

RetryInit ==
    /\ PipelineIdle
    /\ trunc = TruncIdle
    /\ StoresEmpty
    /\ MoreIdle
    /\ retry \in {[RetryIdle EXCEPT !.wrapper = w, !.step = "trying"] :
                      w \in {"google", "caldav"}}

\* func is called once more
Attempt ==
    /\ retry.step = "trying"
    /\ \E outcome \in Outcomes : retry' = AfterAttempt(retry, outcome)
    /\ UNCHANGED <<pipeline, trunc, stores, more>>

RetryNext == Attempt

RetrySpec == RetryInit /\ [][RetryNext]_vars

(***************************************************************************)
(* The per-user stores, followed on their own: the transport and the       *)
(* executor call append_message, log_action, debug_on, debug_off,          *)
(* execute_plan and process_user_request for one user after another.  A    *)
(* profile is its telegram_user_id, or has none.                           *)
(***************************************************************************)
Profiles ==
    {[has_id |-> TRUE, telegram_user_id |-> u] : u \in Users}
        \cup {[has_id |-> FALSE, telegram_user_id |-> 0]}

\* the user an operation is performed for; 0 stands for a profile without id
ActorOf(profile) == IF profile.has_id THEN profile.telegram_user_id ELSE 0

\* variant: one flag is kept for all users
FlagKey_global(profile) == 1

\* int(profile.get("telegram_user_id")), debug_service.py lines 22 and 33
FlagKey(profile) == profile.telegram_user_id

\* int(profile.get("telegram_user_id", 0)), command_service.py lines 76-78
LogKey(profile) == IF profile.has_id THEN profile.telegram_user_id ELSE 0

\* dialog_history.py line 12
Roles == {"user", "assistant"}

\* variant: the handlers toggle the flag
SetFlag_toggle(flags, profile, value) ==
    IF profile.has_id
    THEN [flags EXCEPT ![profile.telegram_user_id] =
                           IF @ = "on" THEN "off" ELSE "on"]
    ELSE flags

\* debug_on and debug_off, debug_service.py lines 20-39: without an id the
\* failure sentence is returned and nothing is stored
SetFlag(flags, profile, value) ==
    IF profile.has_id THEN [flags EXCEPT ![FlagKey(profile)] = value] ELSE flags

StoreOpWith(name, actor, raised, method, limit, out) ==
    /\ store_op.ops < MaxOps
    /\ store_op' = [name |-> name, actor |-> actor, raised |-> raised,
                    method |-> method, limit |-> limit, out |-> out,
                    ops |-> store_op.ops + 1]
    /\ UNCHANGED <<pipeline, trunc, retry, more>>

StoreOp(name, actor, raised) == StoreOpWith(name, actor, raised, "", 0, <<>>)

\* dialog_history.append_message, lines 10-14
append_message ==
    \E user_id \in Users, role \in Roles \cup {"system"},
       text \in {"hello", "done"} :
        /\ StoreOp("append_message", user_id, role \notin Roles)
        /\ _HISTORY' =
               IF role \in Roles
               THEN [_HISTORY EXCEPT
                        ![user_id] = DequeAppend(@, [role |-> role, text |-> text])]
               ELSE _HISTORY
        /\ UNCHANGED <<_ACTIONS, _user_debug_flags>>

\* action_log.log_action, lines 11-18
log_action ==
    \E user_id \in Users, action_type \in {"TASK_CREATED", "NOTE_CREATED"} :
        /\ StoreOp("log_action", user_id, FALSE)
        /\ _ACTIONS' = [_ACTIONS EXCEPT ![user_id] = DequeAppend(@, action_type)]
        /\ UNCHANGED <<_HISTORY, _user_debug_flags>>

\* debug_service.debug_on, lines 20-28
user_debug_on ==
    \E profile \in Profiles :
        /\ StoreOp("debug_on", ActorOf(profile), FALSE)
        /\ _user_debug_flags' = SetFlag(_user_debug_flags, profile, "on")
        /\ UNCHANGED <<_HISTORY, _ACTIONS>>

\* debug_service.debug_off, lines 31-39
user_debug_off ==
    \E profile \in Profiles :
        /\ StoreOp("debug_off", ActorOf(profile), FALSE)
        /\ _user_debug_flags' = SetFlag(_user_debug_flags, profile, "off")
        /\ UNCHANGED <<_HISTORY, _ACTIONS>>

\* execute_plan with a plan whose handler returns, command_service.py lines
\* 134-148: the handler may be debug_on or debug_off, and _log_action_safe
\* logs the action under the profile's id
user_execute_plan ==
    \E profile \in Profiles,
       method \in {"debug_on", "debug_off", "create_personal_task",
                   "write_personal_note", "chat"} :
        /\ StoreOpWith("execute_plan", ActorOf(profile), FALSE, method, 0, <<>>)
        /\ _user_debug_flags' =
               CASE method = "debug_on" -> SetFlag(_user_debug_flags, profile, "on")
                 [] method = "debug_off" -> SetFlag(_user_debug_flags, profile, "off")
                 [] OTHER -> _user_debug_flags
        /\ _ACTIONS' = [_ACTIONS EXCEPT
                            ![LogKey(profile)] = _log_action_safe(@, method)]
        /\ UNCHANGED _HISTORY

\* process_user_request, ai_service.py line 563: build_context_for_user reads
\* the history and the action log of the profile's id and writes nothing
user_process_request ==
    \E profile \in Profiles :
        /\ StoreOp("process_user_request", ActorOf(profile), FALSE)
        /\ UNCHANGED <<_HISTORY, _ACTIONS, _user_debug_flags>>

\* debug_service.is_debug_enabled, lines 16-17
is_debug_enabled(flags, user_id) == flags[user_id] = "on"

\* debug_service.debug_status, lines 42-48: the status sentence is returned
user_debug_status ==
    \E profile \in Profiles :
        /\ StoreOp("debug_status", ActorOf(profile), FALSE)
        /\ UNCHANGED <<_HISTORY, _ACTIONS, _user_debug_flags>>

\* dialog_history.get_recent_history, lines 17-22: history[-limit:] of a copy
recent_history(history, user_id, limit) ==
    IF limit > 0 THEN SliceFrom(history[user_id], 0 - limit)
    ELSE history[user_id]

get_recent_history ==
    \E user_id \in Users, limit \in {1, 8} :
        /\ StoreOpWith("get_recent_history", user_id, FALSE, "", limit,
                       recent_history(_HISTORY, user_id, limit))
        /\ UNCHANGED <<_HISTORY, _ACTIONS, _user_debug_flags>>

\* a store that earlier messages have filled with n entries
Filled(n, first, entry) == [k \in 1..n |-> IF k = 1 THEN first ELSE entry]

\* The stores when the run starts: empty, as the modules create them, or the
\* history and the log of user 1 one entry short of the deques' maxlen.
StoreInit ==
    /\ PipelineIdle
    /\ trunc = TruncIdle
    /\ retry = RetryIdle
    /\ MoreIdle
    /\ store_op = StoreOpIdle
    /\ _user_debug_flags = [k \in Keys |-> "unset"]
    /\ \E n \in {0, LogMaxLen - 1} :
           /\ _HISTORY =
                  [k \in Keys |->
                      IF k = 1
                      THEN Filled(n, [role |-> "user", text |-> "first"],
                                  [role |-> "assistant", text |-> "old"])
                      ELSE <<>>]
           /\ _ACTIONS =
                  [k \in Keys |->
                      IF k = 1 THEN Filled(n, "NOTE_DELETED", "TASK_UPDATED")
                      ELSE <<>>]

StoreNext ==
    \/ append_message
    \/ log_action
    \/ user_debug_on
    \/ user_debug_off
    \/ user_execute_plan
    \/ user_process_request
    \/ user_debug_status
    \/ get_recent_history

StoreSpec == StoreInit /\ [][StoreNext]_vars

(***************************************************************************)
(* make_plan followed on its own: the Plan stage reads one answer of       *)
(* _call_model, whose method may be any name of the executor's table, of   *)
(* the stage's own list, or a name of neither.                             *)
(***************************************************************************)
MakePlanRaws ==
    {Obj([method |-> m, params |-> q, confidence |-> c,
          user_visible_answer |-> Missing, clarify_question |-> cq]) :
        m \in {Missing, Num(5), Str("drop_all_tasks")}
                 \cup {Str(x) : x \in METHOD_MAP \cup allowed_methods},
        q \in {Missing, Dict([question |-> Str("model question")]), List(1)},
        c \in {Missing, Num(150)},
        cq \in {Missing, Str("plan question")}}
    \cup NonObjectTexts
    \cup {NoText, EmptyText, MaxTokensMessage, Json(Dict(<<>>)), Json(None)}

MakePlanInit ==
    /\ PipelineIdle
    /\ trunc = TruncIdle
    /\ retry = RetryIdle
    /\ StoresEmpty
    /\ gs = GsIdle
    /\ \E raw \in MakePlanRaws, text \in UserTexts :
           mk = [MkIdle EXCEPT !.step = "call", !.raw = raw, !.text = text]

\* make_plan returns or raises, lines 471-490
MakePlan ==
    /\ mk.step = "call"
    /\ mk' = [mk EXCEPT !.step = "returned", !.out = make_plan(mk.raw, mk.text)]
    /\ UNCHANGED <<pipeline, trunc, retry, stores, gs>>

MakePlanNext == MakePlan

MakePlanSpec == MakePlanInit /\ [][MakePlanNext]_vars

(***************************************************************************)
(* google_service: the personal notes and tasks sheets.  A handler runs on *)
(* a worker thread (command_service._run_sync, lines 25-26); every remote  *)
(* call of the Sheets API is one step, so two handlers interleave between  *)
(* their remote calls.  A remote call either succeeds or, after the        *)
(* retries of _with_retries, raises.                                       *)
(***************************************************************************)
Row(id, user, text) == [id |-> id, user |-> user, text |-> text]

\* a row without cells, which the handlers skip ("if row and ...")
BlankRow == Row(0, 0, "")

InitialNotes == <<Row(1, 1, "note"), Row(2, 2, "note")>>
InitialTasks == <<Row(1, 1, "task"), Row(2, 2, "task")>>

SheetOf(op) ==
    IF op = "update_personal_task" THEN "PersonalTasks" ELSE "PersonalNotes"

\* row and row[0] == id and row[1] == str(profile.get("user_id")),
\* google_service.py lines 440, 455 and 517
OwnRow(row, id, user) == row # BlankRow /\ row.id = id /\ row.user = user

RECURSIVE KeepRows(_, _, _)
\* the list keep of delete_personal_note, lines 452-459
KeepRows(rows, id, user) ==
    IF rows = <<>> THEN <<>>
    ELSE IF OwnRow(Head(rows), id, user) THEN KeepRows(Tail(rows), id, user)
    ELSE <<Head(rows)>> \o KeepRows(Tail(rows), id, user)

\* the first row of the loop of update_personal_note and update_personal_task
\* that matches (its sheet row is the position plus one), 0 if none
MatchPos(rows, id, user) ==
    IF \E k \in 1..Len(rows) : OwnRow(rows[k], id, user)
    THEN CHOOSE k \in 1..Len(rows) :
             /\ OwnRow(rows[k], id, user)
             /\ \A j \in 1..(k - 1) : ~OwnRow(rows[j], id, user)
    ELSE 0

\* values().update of one row; rows between the end of the data and the
\* written row stay blank
UpdateAt(rows, pos, row) ==
    [k \in 1..Max(Len(rows), pos) |->
        IF k = pos THEN row ELSE IF k <= Len(rows) THEN rows[k] ELSE BlankRow]

GsStep(t, thread, data) ==
    /\ gs' = [gs EXCEPT !.th[t] = thread, !.data = data]
    /\ UNCHANGED <<pipeline, trunc, retry, stores, mk>>

Finished(thread, answer) == [thread EXCEPT !.pc = "done", !.result = answer]

\* execute_plan hands a handler to a worker thread
CallHandler ==
    \E t \in Threads, user \in Users, id \in {1, 2, 3},
       op \in {"create_personal_note", "update_personal_note",
               "delete_personal_note", "update_personal_task"} :
        /\ gs.calls < MaxCalls
        /\ gs.th[t].pc \in {"idle", "done"}
        /\ op = "create_personal_note" => id = gs.next_id
        /\ gs' = [gs EXCEPT
                     !.th[t] = [ThreadIdle EXCEPT
                                   !.op = op, !.user = user, !.id = id,
                                   !.pc = IF op = "create_personal_note"
                                          THEN "append" ELSE "read"],
                     !.calls = @ + 1,
                     !.next_id = IF op = "create_personal_note" THEN @ + 1 ELSE @,
                     !.targets = IF op = "delete_personal_note"
                                 THEN @ \cup {id} ELSE @,
                     !.requesters = IF op = "create_personal_note" THEN @
                                    ELSE @ \cup {<<SheetOf(op), user>>}]
        /\ UNCHANGED <<pipeline, trunc, retry, stores, mk>>

\* create_personal_note, lines 393-402: _append_row, and every exception
\* becomes the failure sentence
AppendNote ==
    \E t \in Threads, ok \in BOOLEAN :
        LET th == gs.th[t] IN
        /\ th.pc = "append"
        /\ gs' = [gs EXCEPT
                     !.th[t] = Finished(th, IF ok THEN "saved" ELSE "failed"),
                     !.data.PersonalNotes =
                         IF ok THEN Append(@, Row(th.id, th.user, "new")) ELSE @,
                     !.saved = IF ok THEN @ \cup {th.id} ELSE @,
                     !.failed = @ \/ ~ok]
        /\ UNCHANGED <<pipeline, trunc, retry, stores, mk>>

\* _read_values, lines 192-205 (a failed read is an empty list), and the loop
\* of the handler over the rows it has read
ReadValues ==
    \E t \in Threads, ok \in BOOLEAN :
        LET th == gs.th[t]
            rows == IF ok THEN gs.data[SheetOf(th.op)] ELSE <<>>
            pos == MatchPos(rows, th.id, th.user)
        IN
        /\ th.pc = "read"
        /\ gs' = [gs EXCEPT
                     !.th[t] =
                         IF pos = 0 THEN Finished(th, "not found")
                         ELSE IF th.op = "delete_personal_note"
                         THEN [th EXCEPT !.pc = "clear",
                                         !.keep = KeepRows(rows, th.id, th.user)]
                         ELSE [th EXCEPT !.pc = "update", !.pos = pos,
                                         !.keep = <<[rows[pos] EXCEPT
                                                        !.text = "edited"]>>],
                     !.failed = @ \/ ~ok]
        /\ UNCHANGED <<pipeline, trunc, retry, stores, mk>>

\* _write_sheet_without_headers, lines 466-468: values().clear of A2:Z
ClearSheet ==
    \E t \in Threads, ok \in BOOLEAN :
        LET th == gs.th[t] IN
        /\ th.pc = "clear"
        /\ gs' = [gs EXCEPT
                     !.th[t] = IF ~ok THEN Finished(th, "raised")
                               ELSE IF th.keep = <<>> THEN Finished(th, "deleted")
                               ELSE [th EXCEPT !.pc = "rewrite"],
                     !.data.PersonalNotes = IF ok THEN <<>> ELSE @,
                     !.failed = @ \/ ~ok]
        /\ UNCHANGED <<pipeline, trunc, retry, stores, mk>>

\* _write_sheet_without_headers, lines 469-477: values().append of the kept
\* rows
AppendKept ==
    \E t \in Threads, ok \in BOOLEAN :
        LET th == gs.th[t] IN
        /\ th.pc = "rewrite"
        /\ gs' = [gs EXCEPT
                     !.th[t] = Finished(th, IF ok THEN "deleted" ELSE "raised"),
                     !.data.PersonalNotes = IF ok THEN @ \o th.keep ELSE @,
                     !.failed = @ \/ ~ok]
        /\ UNCHANGED <<pipeline, trunc, retry, stores, mk>>

\* _update_row, lines 222-234, called with the row index found in the read
UpdateRow ==
    \E t \in Threads, ok \in BOOLEAN :
        LET th == gs.th[t] IN
        /\ th.pc = "update"
        /\ gs' = [gs EXCEPT
                     !.th[t] = Finished(th, IF ok THEN "updated" ELSE "raised"),
                     !.data[SheetOf(th.op)] =
                         IF ok THEN UpdateAt(@, th.pos, th.keep[1]) ELSE @,
                     !.failed = @ \/ ~ok]
        /\ UNCHANGED <<pipeline, trunc, retry, stores, mk>>

SheetInit ==
    /\ PipelineIdle
    /\ trunc = TruncIdle
    /\ retry = RetryIdle
    /\ StoresEmpty
    /\ mk = MkIdle
    /\ gs = GsWith(InitialNotes, InitialTasks)

SheetNext ==
    \/ CallHandler
    \/ AppendNote
    \/ ReadValues
    \/ ClearSheet
    \/ AppendKept
    \/ UpdateRow

SheetSpec == SheetInit /\ [][SheetNext]_vars

(***************************************************************************)
(* Properties.                                                             *)
(***************************************************************************)
Conf(v) == Get(v, "confidence").n
Quality(v) == Get(v, "quality").n
Method(v) == Get(v, "method")
PlanKeys ==
    {"method", "params", "confidence", "clarify_question",
     "user_visible_answer", "original_question"}
InPipeline == pc \in {"intent", "chat", "structure", "plan", "review"}

\* C1 (as stated): when every underlying model call raises, the plan that
\* process_user_request returns is the guaranteed default: method chat,
\* confidence 0.3, params holding only question = the original text.
C1_UnreachableGivesDefault ==
    (pc = "returned" /\ unreachable) =>
        /\ Method(result) = Str("chat")
        /\ Conf(result) = 30
        /\ Get(result, "params") = Dict([question |-> user_text])

\* C1 (amended): when every underlying model call raises, the Intent stage
\* falls back to topic CHAT and process_user_request returns the chat
\* short-circuit plan: method chat, confidence 1.0, params holding question and
\* context_text, and the fixed apology of free_chat as user_visible_answer.
C1_UnreachableGivesChatPlan ==
    (pc = "returned" /\ unreachable) =>
        /\ Method(result) = Str("chat")
        /\ Conf(result) = 100
        /\ Get(result, "params") =
               Dict([question |-> user_text, context_text |-> ContextText])
        /\ Get(result, "user_visible_answer") = AsStr(ChatApology)
        /\ Get(result, "clarify_question") = None
        /\ Get(result, "original_question") = user_text

C1_Witness ==
    /\ pc = "returned"
    /\ unreachable
    /\ Get(intent, "topic") = Str("CHAT")
    /\ Conf(intent) = 50

\* C2: whatever the model answers at each stage, no exception leaves
\* process_user_request, a running request is never stuck (its gateway call
\* is under way or has returned to the stage), and the returned plan is a
\* mapping with the six plan fields whose original_question is the input text.
C2_AlwaysReturnsAPlan ==
    /\ escaped # "process_user_request"
    /\ InPipeline => gw.step \in {"first", "expanded", "nocontext", "done"}
    /\ pc = "returned" =>
        /\ result.t = "dict"
        /\ PlanKeys \subseteq DOMAIN result.d
        /\ Get(result, "original_question") = user_text

C2_Witness ==
    /\ pc = "returned"
    /\ "plan" \in stage_raised
    /\ PlanKeys \subseteq DOMAIN result.d
    /\ Get(result, "original_question") = user_text

\* C3: when the Intent stage's confidence is below 0.3 the returned plan has
\* method chat, whatever the Structure, Plan and Review stages produced.
C3_LowIntentGivesChat ==
    (pc = "returned" /\ intent # None /\ Conf(intent) < 30) =>
        Method(result) = Str("chat")

C3_Witness ==
    /\ pc = "returned"
    /\ intent # None /\ Conf(intent) = 20
    /\ plan # None /\ Method(plan) = Str("create_personal_task")
    /\ Conf(plan) = 100
    /\ review # None /\ Quality(review) = 100
    /\ Method(result) = Str("chat")

LowUpstream ==
    \/ intent # None /\ Conf(intent) < 30
    \/ review # None /\ Quality(review) < 50

\* C4: when intent.confidence < 0.3 or review.quality < 0.5, no step of
\* execute_plan on the returned plan invokes a note, task or calendar handler
\* or changes the action log.
C4_LowConfidenceHasNoSideEffect ==
    [][(pc \in {"returned", "exec_chat"} /\ LowUpstream) =>
        /\ actions' = actions
        /\ \A k \in DOMAIN handler_calls' :
               handler_calls'[k] \notin CapabilityMethods]_vars

C4_Witness ==
    /\ pc = "done"
    /\ review # None /\ Quality(review) = 45
    /\ Method(result) = Str("clarify")
    /\ reply # None
    /\ handler_calls = <<>>
    /\ actions = <<>>

\* With these scores process_user_request returns the Plan stage's plan
\* itself (line 615), so at the end of execute_plan it is `result`.
C5Case ==
    /\ pc = "done"
    /\ intent # None /\ Conf(intent) >= 30
    /\ review # None /\ Quality(review) >= 80
    /\ HasGet(result) /\ Method(result) = Str("create_personal_task")
    /\ HasGet(Get(result, "params"))

\* C5 (as stated): with review.quality >= 0.8, intent.confidence >= 0.3 and a
\* structurally valid Plan-stage plan with method create_personal_task,
\* process_user_request followed by execute_plan invokes the
\* create_personal_task handler exactly once.
C5_GoodPlanIsExecuted ==
    C5Case => handler_calls = <<"create_personal_task">>

\* C5 (amended): in that case the handler is invoked exactly once when the
\* plan's clarify_question is empty or null; when the plan carries a
\* non-empty clarify_question, execute_plan answers with that question and
\* invokes no handler.
C5_GoodPlanIsExecutedUnlessItAsks ==
    C5Case =>
        IF Truthy(Get(result, "clarify_question"))
        THEN /\ handler_calls = <<>>
             /\ Get(reply, "user_visible_answer") = Get(result, "clarify_question")
        ELSE handler_calls = <<"create_personal_task">>

C5_Witness ==
    /\ C5Case
    /\ Quality(review) = 100
    /\ ~Truthy(Get(result, "clarify_question"))
    /\ Truthy(Get(result, "user_visible_answer"))
    /\ handler_calls = <<"create_personal_task">>
    /\ actions # <<>>

\* C6: with 0.3 <= review.quality < 0.5 and intent.confidence >= 0.3 (topic
\* not CHAT), the returned plan has method clarify and its
\* user_visible_answer is the Review stage's clarify question when there is
\* one, and the fixed generic prompt otherwise.
C6_LowQualityAsks ==
    (/\ pc = "returned"
     /\ intent # None /\ Conf(intent) >= 30
     /\ review # None /\ Quality(review) >= 30 /\ Quality(review) < 50) =>
        /\ Method(result) = Str("clarify")
        /\ Get(result, "user_visible_answer") =
               IF Truthy(Get(review, "clarify_question"))
               THEN Get(review, "clarify_question")
               ELSE GenericGateClarify

C6_Witness ==
    /\ pc = "returned"
    /\ Conf(intent) >= 30
    /\ review # None /\ Quality(review) = 45
    /\ Get(review, "clarify_question") = Str("review question")
    /\ Method(result) = Str("clarify")
    /\ Get(result, "user_visible_answer") = Str("review question")

ModelPlan == _safe_json_loads(gw.ret)
ModelParams == Or(Get(ModelPlan, "params"), Dict(<<>>))
C7Case ==
    /\ pc = "plan"
    /\ gw.step = "done"
    /\ ModelPlan.t = "dict"
    /\ "method" \in DOMAIN ModelPlan.d
    /\ ~(Method(ModelPlan).t = "str" /\ Method(ModelPlan).s \in allowed_methods)

\* C7 (as stated): when the model's Plan-stage method is outside the
\* allow-list, make_plan yields a plan with method chat and params.question
\* equal to the original text, for every params value of the model.
C7_UnknownMethodAsksOriginalText ==
    [][C7Case =>
        /\ pc' = "review"
        /\ Method(plan') = Str("chat")
        /\ Get(Get(plan', "params"), "question") = user_text]_vars

\* C7 (amended): when the model's Plan-stage method is outside the allow-list
\* and its params is absent or a JSON object, make_plan yields a plan with
\* method chat whose params.question is the original text when the model's
\* params holds no non-empty question, and the model's question otherwise.
C7_UnknownMethodDefaultsQuestion ==
    [][(C7Case /\ HasGet(ModelParams)) =>
        /\ pc' = "review"
        /\ Method(plan') = Str("chat")
        /\ Get(Get(plan', "params"), "question") =
               IF Truthy(Get(ModelParams, "question"))
               THEN Get(ModelParams, "question")
               ELSE user_text]_vars

C7_Witness ==
    /\ pc = "review"
    /\ model_method = Str("drop_all_tasks")
    /\ Method(plan) = Str("chat")
    /\ Get(Get(plan, "params"), "question") = user_text
    /\ "title" \in DOMAIN Get(plan, "params").d

IsAllowed(m) == m.t = "str" /\ m.s \in allowed_methods

\* C8: the plan that make_plan returns and the plan that
\* process_user_request returns always have a method of the allow-list.
C8_MethodInAllowList ==
    /\ plan # None => IsAllowed(Method(plan))
    /\ result # None => IsAllowed(Method(result))

C8_Witness ==
    /\ pc = "review"
    /\ model_method = Str("drop_all_tasks")
    /\ Method(plan) = Str("chat")
    /\ Get(Get(plan, "params"), "question") = Str("model question")

\* C9 (as stated): for every model output, JSON that is not an object
\* included, analyze_intent, extract_structure, make_plan and review_plan
\* return a result with all required keys, without raising.
C9_StagesNeverRaise ==
    /\ stage_raised = {}
    /\ intent # None =>
        {"topic", "intent", "rough_method", "complexity", "confidence"}
            \subseteq DOMAIN intent.d
    /\ review # None =>
        {"quality", "problems", "clarify_question"} \subseteq DOMAIN review.d
    /\ plan # None => (PlanKeys \ {"original_question"}) \subseteq DOMAIN plan.d

InUnit(n) == 0 <= n /\ n <= 100

\* C10: the confidence of an Intent result and of a plan, the quality of a
\* Review result and the confidence of the returned plan lie in [0,1],
\* whatever number, string or other value the model returned.
C10_ConfidenceInUnitInterval ==
    /\ intent # None => InUnit(Conf(intent))
    /\ plan # None => InUnit(Conf(plan))
    /\ review # None => InUnit(Quality(review))
    /\ result # None => InUnit(Conf(result))

C10_Witness ==
    /\ pc = "returned"
    /\ Conf(intent) = 100
    /\ Conf(plan) = 100
    /\ Quality(review) = 0
    /\ InUnit(Conf(result))

\* C11: no exception leaves _call_model, and an invocation whose
\* generate_content calls all raised returns None.
C11_GatewayNeverRaises ==
    /\ ~gw.exc
    /\ (gw.step = "done" /\ gw.all_raised) => gw.ret = NoText

\* both calls of a free-chat invocation raised (the second is the call
\* without context)
C11_Witness ==
    /\ gw.step = "done"
    /\ gw.stage = "chat"
    /\ gw.all_raised
    /\ gw.ret = NoText

\* C12: a call whose first candidate finished with a blocked reason is never
\* the call whose text _call_model returns.
C12_BlockedTextNeverSurfaced ==
    (gw.step = "done" /\ gw.src_fr \in blocked_reasons) => gw.ret = NoText

\* C13: a value returned by _call_model is None or one of the texts the model
\* service returned in the calls of that invocation.
C13_NoFabricatedText ==
    gw.step = "done" => (gw.ret = NoText \/ gw.ret \in gw.seen)

\* C14: for max_chars >= 1 the result of truncate_text is at most max_chars
\* long, and it is the text itself when the text is at most max_chars long.
C14_TruncateWithinBudget ==
    trunc.step = "returned" =>
        /\ Len(trunc.out) <= trunc.max_chars
        /\ Len(trunc.text) <= trunc.max_chars => trunc.out = trunc.text

\* C15: when the handler that execute_plan invoked raised, execute_plan
\* itself does not raise and returns the fixed apology as user_visible_answer
\* with the plan it was given as extra_data.
C15_HandlerErrorGivesApology ==
    (pc = "done" /\ handler_raised) =>
        /\ escaped = ""
        /\ Get(reply, "user_visible_answer") = ExecApology
        /\ Get(reply, "extra_data") = result

C15_Witness ==
    /\ pc = "done"
    /\ handler_raised
    /\ handler_calls = <<"update_personal_task">>
    /\ Get(reply, "extra_data") = result

\* C16: execute_plan answers every plan with method clarify with a non-empty
\* user_visible_answer, also when the plan's clarify_question and
\* user_visible_answer are both null, and a plan with method clarify that
\* make_plan returns has a non-null, non-empty clarify_question.
C16_ClarifyCarriesQuestion ==
    /\ (pc = "done" /\ HasGet(result) /\ Method(result) = Str("clarify")) =>
            /\ escaped = ""
            /\ Truthy(Get(reply, "user_visible_answer"))
    /\ (plan # None /\ Method(plan) = Str("clarify")) =>
            Truthy(Get(plan, "clarify_question"))

C16_Witness ==
    /\ pc = "done"
    /\ Method(result) = Str("clarify")
    /\ Get(result, "clarify_question") = None
    /\ Get(result, "user_visible_answer") = None
    /\ Get(result, "confidence") = Num(60)
    /\ Get(reply, "user_visible_answer") = GenericGateClarify

TopicIsChat == intent # None /\ Get(intent, "topic") = Str("CHAT")

\* C17: when every model call of the request raised, process_user_request
\* followed by execute_plan ends without an exception, and the reply is the
\* fixed apology of free_chat (with the fixed diagnostic suffix of the chat
\* short-circuit plan when the debug flag is on).
C17_UnreachableGivesFixedReply ==
    (pc = "done" /\ unreachable) =>
        /\ escaped = ""
        /\ reply = CommandResult(ChatApology.v, None,
                       DebugTail(debug_flag, Str("chat"), Num(ChatConfidence),
                                 Dict([question |-> None, context_text |-> None])))

C17_Witness ==
    /\ pc = "done"
    /\ unreachable
    /\ debug_flag
    /\ Get(reply, "user_visible_answer") = ChatApology.v
    /\ invocations = <<"intent", "chat">>

\* C18 (as stated): the confidence of the returned plan never exceeds the
\* confidence the Intent stage produced.
C18_ConfidenceNeverRaised ==
    (pc = "returned" /\ intent # None) => Conf(result) <= Conf(intent)

\* C18 (amended): the gate writes no confidence of its own above what the
\* stages produced: the returned plan is the Plan stage's plan with its
\* confidence, or a clarify plan whose confidence is the review quality
\* (below 0.8), or the fallback with the fixed 0.3, or, for topic CHAT, the
\* short-circuit plan with the fixed 1.0.  It may exceed the Intent
\* stage's confidence.
C18_ConfidenceComesFromStages ==
    pc = "returned" =>
        \/ /\ TopicIsChat
           /\ review = None
           /\ Conf(result) = 100
        \/ /\ Method(result) = Str("chat")
           /\ Conf(result) = 30
           /\ Get(result, "user_visible_answer") = None
        \/ /\ review # None
           /\ result = plan
        \/ /\ review # None
           /\ result # plan
           /\ Method(result) = Str("clarify")
           /\ Conf(result) = Quality(review)
           /\ Quality(review) < 80

C18_Witness ==
    /\ pc = "returned"
    /\ Conf(intent) = 100
    /\ Conf(plan) = 100
    /\ Method(plan) = Str("create_personal_task")
    /\ Quality(review) = 79
    /\ Method(result) = Str("clarify")
    /\ Conf(result) = 79

IsFallback(p, text) ==
    /\ Method(p) = Str("chat")
    /\ Conf(p) = 30
    /\ Get(p, "params") = Dict([question |-> text])
    /\ Get(p, "user_visible_answer") = None
    /\ Get(p, "clarify_question") = None
    /\ Get(p, "original_question") = text

\* C19 (as stated): when the Intent stage's confidence is below 0.3 the
\* returned plan is exactly the chat fallback, for every intent topic.
C19_LowIntentGivesFallback ==
    (pc = "returned" /\ intent # None /\ Conf(intent) < 30) =>
        IsFallback(result, user_text)

\* C19 (amended): when the Intent stage's confidence is below 0.3 and the
\* topic is not CHAT the returned plan is exactly the chat fallback, whatever
\* the later stages produced; for topic CHAT the short-circuit plan with
\* confidence 1.0 and the free-chat answer is returned.
C19_LowIntentGivesFallbackUnlessChat ==
    (pc = "returned" /\ intent # None /\ Conf(intent) < 30) =>
        IF TopicIsChat
        THEN /\ Method(result) = Str("chat")
             /\ Conf(result) = 100
             /\ Truthy(Get(result, "user_visible_answer"))
        ELSE IsFallback(result, user_text)

C19_Witness ==
    /\ pc = "returned"
    /\ Conf(intent) = 20
    /\ ~TopicIsChat
    /\ Method(plan) = Str("create_personal_task")
    /\ Truthy(Get(plan, "user_visible_answer"))
    /\ Quality(review) = 100
    /\ IsFallback(result, user_text)

\* C20: when the Intent stage yields topic CHAT, process_user_request calls
\* the gateway once for the Intent stage and once for free chat, runs no
\* Structure, Plan or Review stage, and returns a plan with method chat and
\* confidence 1.0.
C20_ChatTopicShortCircuits ==
    (pc = "returned" /\ TopicIsChat) =>
        /\ invocations = <<"intent", "chat">>
        /\ structured = None /\ plan = None /\ review = None
        /\ Method(result) = Str("chat")
        /\ Conf(result) = 100

C20_Witness ==
    /\ pc = "returned"
    /\ TopicIsChat
    /\ ~unreachable
    /\ Conf(intent) = 20
    /\ invocations = <<"intent", "chat">>
    /\ Get(result, "user_visible_answer") = Str("chat answer")

\* C21: a reply that execute_plan returns while the user's debug flag is off
\* carries no diagnostic suffix, and the reply after a raising handler is the
\* fixed apology (with the plan as extra_data), with no text of the
\* exception.
C21_NoDiagnosticsWhenDebugOff ==
    (pc = "done" /\ reply # None /\ ~debug_flag) =>
        /\ Get(reply, "debug") = None
        /\ handler_raised => Get(reply, "user_visible_answer") = ExecApology

C21_Witness ==
    /\ pc = "done"
    /\ ~debug_flag
    /\ handler_raised
    /\ Get(reply, "debug") = None
    /\ Get(reply, "user_visible_answer") = ExecApology

\* C22: a reply that execute_plan returns while the user's debug flag is on
\* carries the diagnostic suffix, whether it is a chat answer, a clarifying
\* question, a handler result or an apology.
C22_DiagnosticsWhenDebugOn ==
    (pc = "done" /\ reply # None /\ debug_flag) => Get(reply, "debug") # None

\* C26: with intent confidence at least 0.3 and a topic other than CHAT, a
\* review quality in [0.5, 0.8) together with a clarify question from the
\* Review stage gives a plan with method clarify whose user_visible_answer is
\* that question; a quality in that range without a clarify question, or a
\* quality of at least 0.8, gives the Plan stage's plan as it is.
C26_MidQualityAsksElsePlanAsIs ==
    (/\ pc = "returned"
     /\ intent # None /\ Conf(intent) >= 30 /\ ~TopicIsChat
     /\ review # None) =>
        LET q == Quality(review)
            cq == Get(review, "clarify_question")
        IN  /\ (50 <= q /\ q < 80 /\ Truthy(cq)) =>
                   /\ Method(result) = Str("clarify")
                   /\ Get(result, "user_visible_answer") = cq
            /\ ((50 <= q /\ q < 80 /\ ~Truthy(cq)) \/ q >= 80) =>
                   /\ result = plan
                   /\ Method(result) = Method(plan)
                   /\ Get(result, "params") = Get(plan, "params")

C26_Witness ==
    /\ pc = "returned"
    /\ Conf(intent) >= 30 /\ ~TopicIsChat
    /\ review # None
    /\ 50 <= Quality(review) /\ Quality(review) < 80
    /\ Truthy(Get(review, "clarify_question"))
    /\ Method(plan) = Str("create_personal_task")
    /\ Method(result) = Str("clarify")
    /\ Get(result, "user_visible_answer") = Get(review, "clarify_question")

\* C27: within one invocation of _call_model the calls are ordered and
\* bounded.  The first call is made once; the call with the expanded budget
\* max(2 * budget, 2048) and the same prompt follows only a first call that
\* ended with MAX_TOKENS; the call without context follows only when
\* retry_without_context is set; every call made while the invocation goes on
\* found no text, and nothing follows the return.  At most 3 calls are made,
\* and at most 2 when retry_without_context is false.
GwSteps(g, h) ==
    \/ /\ g.step \in {"idle", "done"}
       /\ h.step \in {"idle", "first"}
       /\ h.calls = 0
    \/ /\ g.step = "first" /\ h.step = "expanded"
       /\ h.calls = 1
       /\ h.finish_reason = "MAX_TOKENS"
       /\ h.max_tokens = Max(2 * g.max_tokens, 2048)
       /\ h.prompt = g.prompt
       /\ h.ret = NoText
    \/ /\ g.step \in {"first", "expanded"} /\ h.step = "nocontext"
       /\ h.calls = g.calls + 1
       /\ g.retry_without_context
       /\ h.ret = NoText
    \/ /\ g.step \in {"first", "expanded", "nocontext"} /\ h.step = "done"
       /\ h.calls = g.calls + 1
       /\ h.calls <= 3
       /\ ~g.retry_without_context => h.calls <= 2

C27_RetryLadderOrderedAndBounded == [][gw' # gw => GwSteps(gw, gw')]_vars

C27_Witness ==
    /\ gw.step = "done"
    /\ gw.calls = 3
    /\ TextTruthy(gw.ret)

\* C28: the call that _call_model makes as a last resort, when
\* retry_without_context is set and no text was recovered, is free of context:
\* its prompt holds the user's request and none of the context text, and its
\* budget is 200 tokens.
C28_LastResortCallIsContextFree ==
    gw.step = "nocontext" =>
        /\ gw.retry_without_context
        /\ Contains(gw.prompt, "request")
        /\ ~Contains(gw.prompt, "context")
        /\ gw.max_tokens = 200

\* C29: one run of process_user_request enters the gateway for the stages
\* Intent, Structure, Plan, Review in that order, each at most once (or for
\* Intent and then free chat), so at most 4 times; a stage enters it only
\* when the invocation before it has returned, and the invocation under way
\* is the one of the stage the run is at.
StageOrder == <<"intent", "structure", "plan", "review">>

InOrder ==
    (InPipeline \/ pc = "returned") =>
        /\ Len(invocations) <= 4
        /\ \/ invocations = SubSeq(StageOrder, 1, Len(invocations))
           \/ invocations = <<"intent", "chat">>
        /\ InPipeline =>
               /\ invocations # <<>>
               /\ invocations[Len(invocations)] = pc
               /\ gw.stage = pc
               /\ gw.step \in {"first", "expanded", "nocontext", "done"}

C29_StagesInOrderOneAtATime ==
    [][/\ InOrder'
       /\ (invocations' # invocations /\ invocations' # <<>>) =>
              /\ gw.step \in {"idle", "done"}
              /\ gw'.step = "first"]_vars

C29_Witness ==
    /\ pc = "returned"
    /\ invocations = <<"intent", "structure", "plan", "review">>
    /\ review # None
    /\ result = plan

\* C30: a failure of the Review stage is a neutral pass.  When the Review
\* stage's model call gave no text, or gave text that is not JSON, with intent
\* confidence at least 0.3 and a topic other than CHAT, review_plan returns
\* quality 0.5 without a clarify question and process_user_request returns the
\* Plan stage's plan, method unchanged: neither a clarify plan nor the chat
\* fallback.
ReviewCallFailed ==
    /\ pc = "review"
    /\ gw.step = "done"
    /\ ~gw.ret.js
    /\ Conf(intent) >= 30 /\ ~TopicIsChat

C30_ReviewFailureIsNeutralPass ==
    [][(ReviewCallFailed /\ pc' # pc) =>
          /\ pc' = "returned"
          /\ Quality(review') = 50
          /\ Get(review', "clarify_question") = None
          /\ result' = plan
          /\ plan' = plan
          /\ Method(result') = Method(plan)
          /\ "review" \notin stage_raised']_vars

C30_Witness ==
    /\ ReviewCallFailed
    /\ gw.ret = NoText
    /\ gw.all_raised
    /\ Method(plan) = Str("create_personal_task")
    /\ Conf(plan) = 100

\* C24: the retry wrappers tell error classes apart.  A call that fails
\* with a structural error (an HttpError with a non-transient status, or an
\* exception that is no network error) is attempted once and the error is
\* raised at once; only transient errors are followed by another attempt.
\* This holds for _with_retries and for _with_retries_caldav.
Structural == {"http_structural", "other_error"}

C24_StructuralErrorsNotRetried ==
    \A k \in DOMAIN retry.tried :
        retry.tried[k] \in Structural =>
            /\ k = 1
            /\ Len(retry.tried) = 1
            /\ retry.step = "raised"

\* C25: a wrapped call is attempted at most 3 times.  The first attempt that
\* succeeds ends the call with its result and nothing is attempted after it;
\* when 3 attempts have failed the wrapper raises: it neither goes on nor
\* returns.
C25_AtMostThreeAttempts ==
    /\ Len(retry.tried) <= 3
    /\ retry.step \in {"idle", "trying", "returned", "raised"}
    /\ \A k \in DOMAIN retry.tried :
           retry.tried[k] = "ok" =>
               k = Len(retry.tried) /\ retry.step = "returned"
    /\ retry.step = "returned" =>
           retry.tried # <<>> /\ retry.tried[Len(retry.tried)] = "ok"
    /\ (Len(retry.tried) = 3 /\ retry.tried[3] # "ok") => retry.step = "raised"

C25_Witness ==
    /\ retry.wrapper = "google"
    /\ retry.step = "raised"
    /\ retry.tried = <<"http_transient", "os_error", "http_transient">>
    /\ retry.slept = <<1, 2>>

\* C23: no state is shared across users.  An operation performed for one
\* user (append_message, log_action, debug_on, debug_off, execute_plan,
\* process_user_request) leaves the dialog history, the action log and the
\* debug flag of every other user as they were.
C23_OtherUsersUntouched ==
    [][\A b \in Users :
          b # store_op'.actor =>
              /\ _HISTORY'[b] = _HISTORY[b]
              /\ _ACTIONS'[b] = _ACTIONS[b]
              /\ _user_debug_flags'[b] = _user_debug_flags[b]]_vars

C23_Witness ==
    /\ store_op.name = "execute_plan"
    /\ store_op.actor = 2
    /\ _user_debug_flags[2] = "on"
    /\ _user_debug_flags[1] = "off"
    /\ _HISTORY[1] # <<>>
    /\ _HISTORY[2] = <<>>

\* C31: when the Plan stage's model call gives nothing or text that is not
\* JSON, make_plan returns the chat fallback that is the pipeline's guaranteed
\* default: method chat, params holding only question = the original text,
\* confidence 0.3.
PlanCallFailed == mk.step = "returned" /\ ~mk.raw.js

C31_PlanFailureGivesDefault ==
    PlanCallFailed =>
        /\ ~mk.out.raised
        /\ Method(mk.out.val) = Str("chat")
        /\ Get(mk.out.val, "params") = Dict([question |-> mk.text])
        /\ Conf(mk.out.val) = 30

\* C32: a method of the published list (every name of the executor's table,
\* and clarify) that the model returns is kept by make_plan; only names
\* outside the list become chat.
PublishedMethods == {Str(x) : x \in METHOD_MAP \cup {"clarify"}}

C32_PublishedMethodsKept ==
    (/\ mk.step = "returned"
     /\ mk.raw.js
     /\ ~mk.out.raised
     /\ Get(mk.raw.v, "method") \in PublishedMethods) =>
        Method(mk.out.val) = Get(mk.raw.v, "method")

\* C33: execute_plan appends at most one entry to the action log per call,
\* and only when the plan's method is one of the eight mutation methods and
\* the handler returned without raising; then the reply is the handler's
\* answer.  For chat, clarify, reading methods and a handler that raised the
\* log stays as it was.
MutationMethods ==
    {"create_personal_task", "update_personal_task", "create_team_task",
     "update_team_task", "create_or_update_calendar_event",
     "write_personal_note", "update_personal_note", "delete_personal_note"}

C33_LogOnlyAfterMutation ==
    [][actions' # actions =>
          /\ pc = "returned" /\ pc' = "done"
          /\ Len(actions') = Len(actions) + 1
          /\ SubSeq(actions', 1, Len(actions)) = actions
          /\ handler_calls' = Append(handler_calls, XMethod(result).s)
          /\ XMethod(result).s \in MutationMethods
          /\ ~handler_raised'
          /\ Get(reply', "user_visible_answer") # ExecApology]_vars

C33_Witness ==
    /\ pc = "done"
    /\ handler_calls = <<"create_personal_task">>
    /\ ~handler_raised
    /\ actions = <<"TASK_CREATED">>
    /\ Get(reply, "user_visible_answer") = Str("task created")

\* C34: only a successful execution is logged: when the write behind
\* create_personal_task failed, execute_plan appends nothing to the action log.
C34_FailedWriteNotLogged ==
    (/\ pc = "done"
     /\ handler_calls = <<"create_personal_task">>
     /\ Get(reply, "user_visible_answer") = Str("google failure")) =>
        actions = <<>>

\* C35: for a request whose intent topic is CHAT the free-chat invocation of
\* the model happens once across process_user_request and execute_plan:
\* execute_plan answers with the plan's user_visible_answer, calls no handler
\* and enters the gateway no further time.
C35_ChatAnsweredOnce ==
    (pc \in {"exec_chat", "done"} /\ TopicIsChat) =>
        /\ pc = "done"
        /\ invocations = <<"intent", "chat">>
        /\ handler_calls = <<>>
        /\ escaped = ""
        /\ Get(reply, "user_visible_answer") = Get(result, "user_visible_answer")

C35_Witness ==
    /\ pc = "done"
    /\ TopicIsChat
    /\ invocations = <<"intent", "chat">>
    /\ handler_calls = <<>>
    /\ Get(reply, "user_visible_answer") = Str("chat answer")

\* C36: the planning pipeline has no effect on in-process state:
\* process_user_request, from building the context to the gate, leaves the
\* action log and the debug flag of the requesting user, and the history, log
\* and flag of every user, as they were, whatever the model answers.
C36_PipelineLeavesStoresAlone ==
    [][(/\ pc \in {"idle", "intent", "chat", "structure", "plan", "review"}
        /\ pc' # "idle") =>
          /\ actions' = actions
          /\ debug_flag' = debug_flag
          /\ _HISTORY' = _HISTORY
          /\ _ACTIONS' = _ACTIONS
          /\ _user_debug_flags' = _user_debug_flags]_vars

C36_Witness ==
    /\ pc = "returned"
    /\ debug_flag
    /\ review # None
    /\ stage_raised = {}
    /\ actions = <<>>

\* C37: a user's dialog history and action log never hold more than 50
\* entries; an append adds the entry at the end, and on a full store it drops
\* exactly the oldest entry; get_recent_history(u, n) with n > 0 returns the
\* min(n, size) most recent messages, oldest first, and changes no store.
AppendedTo(q, q2) ==
    /\ q2 # <<>>
    /\ SubSeq(q2, 1, Len(q2) - 1) = IF Len(q) < 50 THEN q ELSE Tail(q)

C37_StoresBoundedAndOrdered ==
    [][/\ \A u \in Users : Len(_HISTORY'[u]) <= 50 /\ Len(_ACTIONS'[u]) <= 50
       /\ \A u \in Users :
              /\ _HISTORY'[u] # _HISTORY[u] => AppendedTo(_HISTORY[u], _HISTORY'[u])
              /\ _ACTIONS'[u] # _ACTIONS[u] => AppendedTo(_ACTIONS[u], _ACTIONS'[u])
       /\ (store_op' # store_op /\ store_op'.name = "append_message"
              /\ ~store_op'.raised) =>
              AppendedTo(_HISTORY[store_op'.actor], _HISTORY'[store_op'.actor])
       /\ (store_op' # store_op /\ store_op'.name = "log_action") =>
              AppendedTo(_ACTIONS[store_op'.actor], _ACTIONS'[store_op'.actor])
       /\ (store_op' # store_op /\ store_op'.name = "get_recent_history") =>
              LET h == _HISTORY[store_op'.actor]
                  n == Min(store_op'.limit, Len(h))
              IN  /\ store_op'.out = SubSeq(h, Len(h) - n + 1, Len(h))
                  /\ _HISTORY' = _HISTORY
                  /\ _ACTIONS' = _ACTIONS
                  /\ _user_debug_flags' = _user_debug_flags]_vars

C37_Witness ==
    /\ store_op.name = "get_recent_history"
    /\ store_op.actor = 1
    /\ Len(_HISTORY[1]) = 50
    /\ _HISTORY[1][1] = [role |-> "assistant", text |-> "old"]
    /\ _HISTORY[1][50] = [role |-> "user", text |-> "hello"]
    /\ Len(store_op.out) = 8
    /\ store_op.out[8] = [role |-> "user", text |-> "hello"]

\* C38: a user's debug flag is off at first, and after any sequence of
\* debug_on, debug_off and debug_status calls is_debug_enabled(u) says
\* whether the latest debug_on or debug_off call made with the valid id u
\* was debug_on; debug_status, and a call with a profile that has no valid
\* id, change no flag.
Switched(op, name) ==
    op.actor # 0 /\ (op.name = name \/ (op.name = "execute_plan" /\ op.method = name))

C38_FlagFollowsLastSwitch ==
    /\ \A u \in Users : ~is_debug_enabled(_user_debug_flags, u)
    /\ [][store_op' # store_op =>
              \A u \in Users :
                  is_debug_enabled(_user_debug_flags', u) =
                      IF u = store_op'.actor /\ Switched(store_op', "debug_on")
                      THEN TRUE
                      ELSE IF u = store_op'.actor /\ Switched(store_op', "debug_off")
                      THEN FALSE
                      ELSE is_debug_enabled(_user_debug_flags, u)]_vars

C38_Witness ==
    /\ store_op.name = "debug_status"
    /\ store_op.actor = 1
    /\ store_op.ops = 3
    /\ is_debug_enabled(_user_debug_flags, 1)
    /\ _user_debug_flags[2] = "off"

\* C39: when create_personal_note and delete_personal_note of another note
\* run at the same time on worker threads, a note whose creation reported
\* success is in the notes sheet once both have completed; stated here for
\* the runs in which no remote call fails.
Quiet == \A t \in Threads : gs.th[t].pc \in {"idle", "done"}

Present(sheet, id) ==
    \E k \in 1..Len(gs.data[sheet]) : gs.data[sheet][k].id = id

C39_ConcurrentDeleteKeepsCreatedNote ==
    (Quiet /\ ~gs.failed) =>
        \A id \in gs.saved : id \notin gs.targets => Present("PersonalNotes", id)

\* C40: update_personal_note, delete_personal_note and update_personal_task
\* change or remove only a row whose id and user_id are the request's: a row
\* of a user who requested no update and no deletion on its sheet is in the
\* sheet, unchanged, once the handlers have completed.
Untouched(sheet, row) ==
    \E k \in 1..Len(gs.data[sheet]) : gs.data[sheet][k] = row

C40_OnlyOwnRowsChanged ==
    Quiet =>
        /\ \A k \in 1..Len(InitialNotes) :
               <<"PersonalNotes", InitialNotes[k].user>> \notin gs.requesters =>
                   Untouched("PersonalNotes", InitialNotes[k])
        /\ \A k \in 1..Len(InitialTasks) :
               <<"PersonalTasks", InitialTasks[k].user>> \notin gs.requesters =>
                   Untouched("PersonalTasks", InitialTasks[k])

====
